---- MODULE Spec2Model ----
(***************************************************************************)
(* A model of the Survivor season simulation engine: simulator.py          *)
(* (SurvivorSimulation), game_mechanics.py (ChallengeMechanics,            *)
(* AdvantageMechanics, VotingMechanics), simulation_config.py              *)
(* (SimulationConfig) and monte_carlo.py (MonteCarloSimulator).             *)
(*                                                                         *)
(* Numbers.  Every profile score, probability and compatibility value of   *)
(* the program is a float in [0,1]; the model keeps them as integer        *)
(* percents 0..100.  Vote-targeting scores are kept in hundredths.         *)
(*                                                                         *)
(* Randomness.  The program draws every random value from the global       *)
(* `random` generator.  The model keeps the generator's state in `rng`; a  *)
(* handler that runs with draw state r takes its i-th draw as Rand(r, i),  *)
(* a deterministic function, and every draw is turned into an outcome the  *)
(* way the code turns it (a threshold test, a weighted choice, a shuffle). *)
(* random.seed(s) puts the generator in SeedState(s) and every handler     *)
(* advances it.  Under Spec one season is run with a seed of 0..MaxSeed or *)
(* without one, from whatever state the generator is in; under SpecBatch   *)
(* batches of seasons are run in one process, seeded as monte_carlo.py and *)
(* parameter_sweep.py seed them.                                           *)
(*                                                                         *)
(* Scale.  The program runs a 24-agent cast with the merge at 13 and tribe *)
(* swaps at 18 and 14.  The model runs the same code on a cast of CastSize *)
(* agents with those thresholds scaled down (merge_at, swap_timing_1,      *)
(* swap_timing_2, three_tribes_min), keeping their order: CastSize >       *)
(* swap_timing_1 > swap_timing_2 > merge_at > three_tribes_min, and        *)
(* merge_at > FinalAt.                                                     *)
(***************************************************************************)
EXTENDS Integers, Sequences, FiniteSets, TLC

(* ------------------------------ bounds -------------------------------- *)

\* Number of agents in the cast (24 in the program's data files).
CastSize == 10

\* Merge threshold, simulator.py:89 (13), scaled to the cast.
merge_at == 7

\* Swap thresholds, simulator.py:107 (18) and simulator.py:109 (14).
swap_timing_1 == 9

swap_timing_2 == 8

\* Alive count from which a swap keeps three tribes, simulator.py:187 (12).
three_tribes_min == 6

\* Largest seed a single run is constructed with.
MaxSeed == 249

\* Largest state the generator is found in when a process starts.
MaxPrior == 1

\* Largest number of simulations of a batch.
MaxSims == 6

(* ------------------------- program constants -------------------------- *)

\* simulator.py:90
ftc_size == 3

\* Alive count from which an episode is tagged "Final" (simulator.py:372).
FinalAt == 6

\* simulator.py:222
MAX_PER_EPISODE == 2

\* monte_carlo.py:167, range(1, 25): the last placement slot reported.
LastPlacementSlot == 24

\* simulator.py:88
tribe_names == <<"Tribe A", "Tribe B", "Tribe C">>

Cast == 1..CastSize

\* compat_data['players']: the input order of the names.
player_names == [i \in 1..CastSize |-> i]

\* seed: int = None (simulator.py:39): the value that stands for "no seed".
NoSeed == 0 - 1

\* The value standing for "the call raised" where a player name is returned.
Raises == 0 - 1

(* --------------------------- sequence helpers ------------------------- *)

\* The value of Body at e, with e evaluated once.
Bind(e, Body(_)) == CHOOSE y \in {Body(x) : x \in {e}} : TRUE

\* The sequence f with every element evaluated.
Tuple(f) == f \o <<>>

Range(s) == {s[i] : i \in 1..Len(s)}

Min2(a, b) == IF a < b THEN a ELSE b

Max2(a, b) == IF a > b THEN a ELSE b

RECURSIVE SumSeq(_)
SumSeq(s) == IF s = <<>> THEN 0 ELSE Head(s) + SumSeq(Tail(s))

\* s.index(x) + 1: the first position of x in s.
IndexOf(s, x) ==
  Bind(Tuple(s), LAMBDA t :
    CHOOSE i \in 1..Len(t) : t[i] = x /\ \A j \in 1..(i-1) : t[j] # x)

\* s[:n]
Prefix(s, n) == SubSeq(s, 1, Min2(n, Len(s)))

\* s with the element at position i removed.
RemoveAt(s, i) == SubSeq(s, 1, i-1) \o SubSeq(s, i+1, Len(s))

\* The first position holding the largest key: Python's max(s, key=...).
ArgMaxFirst(keys) ==
  Bind(Tuple(keys), LAMBDA k :
    CHOOSE i \in 1..Len(k) :
      /\ \A j \in 1..Len(k) : k[j] <= k[i]
      /\ \A j \in 1..(i-1) : k[j] < k[i])

RECURSIVE SortDesc(_, _)
\* s.sort(key=..., reverse=True): descending by key[x], equal keys keeping
\* their order (Python's sort is stable, also when reversed).
SortDesc(s, key) ==
  Bind(Tuple(s), LAMBDA t :
    IF t = <<>> THEN <<>>
    ELSE Bind(ArgMaxFirst([k \in 1..Len(t) |-> key[t[k]]]), LAMBDA i :
           <<t[i]>> \o SortDesc(RemoveAt(t, i), key)))

\* The first position holding the smallest key: what a stable ascending sort puts first.
ArgMinFirst(keys) ==
  Bind(Tuple(keys), LAMBDA k :
    CHOOSE i \in 1..Len(k) :
      /\ \A j \in 1..Len(k) : k[j] >= k[i]
      /\ \A j \in 1..(i-1) : k[j] > k[i])

(* ------------------------- the random generator ----------------------- *)

\* The i-th draw of a handler that runs with generator state r: 0..1008.
Rand(r, i) ==
  LET a == (r * 7919 + 17) % 1009
      b == (i * 131 + 31) % 1009
  IN  (a * b + a + 3 * b) % 1009

\* random.seed(seed): the state the generator is put in.
SeedState(seed) == (seed * 613 + 101) % 1009

\* The generator state after a handler that ran with state r.
NextRng(r) == (r * 37 + 11) % 1009

\* A faulty seeding, `if seed:`, which leaves seed 0 unseeded: with it C9 fails.
SeededIfTruthy(seed, r) == IF seed # NoSeed /\ seed # 0 THEN SeedState(seed) ELSE r

\* The generator state after `if seed is not None: random.seed(seed)`
\* (simulator.py:59-61), r being the state before.
Seeded(seed, r) == IF seed # NoSeed THEN SeedState(seed) ELSE r

\* random.random() as a percent 0..99.
Pct(d) == (d * 100) \div 1009

\* random.random() < p for p given as a percent.
RandomBelow(d, p) == Pct(d) < p

\* random.uniform(lo, hi) on integers: one of lo..hi.
Uniform(d, lo, hi) == lo + (d % (hi - lo + 1))

\* random.randint(lo, hi)
RandInt(d, lo, hi) == lo + (d % (hi - lo + 1))

\* random.choice(s)
Choice(d, s) == s[1 + (d % Len(s))]

\* itertools.accumulate(weights)
Accumulate(weights) ==
  Bind(Tuple(weights), LAMBDA w : Tuple([i \in 1..Len(w) |-> SumSeq(SubSeq(w, 1, i))]))

RECURSIVE Bisect(_, _, _, _)
\* bisect.bisect_right(a, x, lo, hi) on 0-based positions lo..hi.
Bisect(a, x, lo, hi) ==
  IF lo >= hi THEN lo
  ELSE LET mid == (lo + hi) \div 2
       IN  IF x < a[mid + 1] THEN Bisect(a, x, lo, mid) ELSE Bisect(a, x, mid + 1, hi)

\* random.choices(population, weights)[0] as a position 1..n: the bisection
\* of random() * total in the cumulative weights; 0 when it raises
\* ValueError (the total of the weights is not positive).  While no weight
\* is negative a position of weight 0 is never chosen.
Choices(d, weights) ==
  Bind(Accumulate(weights), LAMBDA cum :
    LET total == cum[Len(cum)]
    IN  IF total <= 0 THEN 0
        ELSE 1 + Bisect(cum, (d * total) \div 1009, 0, Len(cum) - 1))

\* [p / total for p in probs] for a non-zero total, up to a positive factor:
\* dividing by a negative total flips every sign.
Normalized(probs) ==
  Bind(Tuple(probs), LAMBDA p :
    IF SumSeq(p) < 0 THEN [i \in 1..Len(p) |-> 0 - p[i]] ELSE p)

\* x / 100 for a weight x, keeping its sign and keeping a non-zero x non-zero.
Scale(x) == IF x >= 0 THEN (x + 99) \div 100 ELSE 0 - ((99 - x) \div 100)

RECURSIVE ShuffleFrom(_, _, _, _)
ShuffleFrom(s, i, r, site) ==
  IF i <= 1 THEN s
  ELSE LET j == 1 + (Rand(r, site + i) % i)
       IN  Bind([s EXCEPT ![i] = s[j], ![j] = s[i]], LAMBDA t :
             ShuffleFrom(t, i - 1, r, site))

\* random.shuffle(s): for i from the last position down, swap s[i] with
\* s[j] for a drawn j <= i.
Shuffle(s, r, site) == Bind(Tuple(s), LAMBDA t : ShuffleFrom(t, Len(t), r, site))

(* ------------------------------- inputs ------------------------------- *)

\* The six challenge categories of a challenge_distribution, in dict order.
Categories == <<"physical", "endurance", "target_practice", "puzzle", "mental", "water">>

\* game_mechanics.py:80-87
category_map ==
  [c \in Range(Categories) |->
     CASE c = "physical" -> "physical_score"
       [] c = "endurance" -> "endurance_score"
       [] c = "target_practice" -> "precision_score"
       [] c = "puzzle" -> "puzzle_score"
       [] c = "mental" -> "mental_score"
       [] OTHER -> "water_score"]

\* A challenge_distribution: category -> weight, in percent.
Dist(ph, en, tp, pu, me, wa) ==
  << [cat |-> "physical", w |-> ph], [cat |-> "endurance", w |-> en],
     [cat |-> "target_practice", w |-> tp], [cat |-> "puzzle", w |-> pu],
     [cat |-> "mental", w |-> me], [cat |-> "water", w |-> wa] >>

\* SimulationConfig(): the dataclass with its defaults (simulation_config.py:16-43),
\* total_idols and the chaos factor given by the caller.
MakeConfig(dist, idols, search, chaos) ==
  [ challenge_distribution |-> dist,
    challenge_threat_weight |-> 16,
    strategic_threat_weight |-> 16,
    social_threat_weight |-> 12,
    total_idols |-> idols,
    idol_search_probability |-> search,
    chaos_factor |-> chaos,
    alliance_loyalty |-> 35 ]

\* The configurations a caller passes: the default distribution with a small
\* idol pool, the puzzle_heavy distribution with an empty pool, and the
\* dataclass defaults with their pool of 8.
Configs ==
  << MakeConfig(Dist(25, 20, 15, 25, 5, 10), 2, 30, 50),
     MakeConfig(Dist(10, 15, 10, 50, 10, 5), 0, 30, 100),
     MakeConfig(Dist(25, 20, 15, 25, 5, 10), 8, 30, 50) >>

\* Configurations validate() rejects, one for each of its four tests: a
\* distribution that sums to 0.90, a chaos factor of 1.5, a negative threat
\* weight, and 31 idols.
InvalidConfigs ==
  << MakeConfig(Dist(25, 20, 15, 25, 5, 0), 2, 30, 50),
     MakeConfig(Dist(25, 20, 15, 25, 5, 10), 2, 30, 150),
     [MakeConfig(Dist(25, 20, 15, 25, 5, 10), 2, 30, 50)
        EXCEPT !.strategic_threat_weight = 0 - 1],
     MakeConfig(Dist(25, 20, 15, 25, 5, 10), 31, 30, 50) >>

\* A configuration with a negative category weight whose weights sum to 1.0.
OutOfRangeConfigs ==
  << MakeConfig(Dist(60, 0 - 10, 15, 25, 5, 5), 2, 30, 50) >>

\* The profile of agent p in input world w (season50_enhanced_profiles.json is
\* an input of the engine).  World 1: ordinary scores, agents 2 and 5 are idol
\* hunters who find what they look for, agent 3 is a prior winner.  World 2:
\* no category scores, the even agents have no challenge ability at all,
\* everybody finds idols easily.  World 3: as world 2, with no challenge
\* ability for anybody.
Profile(w, p) ==
  IF w = 1 THEN
    [ idol_hunter |-> p \in {2, 5},
      score_outwit |-> 20 + 10 * (p % 5),
      score_jury |-> 30 + 8 * ((p * 3) % 7),
      score_inf |-> 25 + 9 * ((p * 5) % 6),
      score_vote |-> 40 + 5 * (p % 4),
      voting_accuracy |-> 30 + 10 * (p % 6),
      challenge_win_prob |-> 10 + 10 * ((p * 7) % 8),
      challenge_categories |-> [k \in {"physical_score", "puzzle_score"} |->
                                  IF k = "physical_score" THEN 15 * (p % 6) ELSE 90 - 10 * p],
      idol_find_prob |-> IF p \in {2, 5} THEN 100 ELSE 8,
      is_winner |-> p = 3,
      wins |-> 0,
      threat_level |-> 50 ]
  ELSE
    [ idol_hunter |-> p \in {1},
      score_outwit |-> 10 * p,
      score_jury |-> 50,
      score_inf |-> 50,
      score_vote |-> 50,
      voting_accuracy |-> 50,
      challenge_win_prob |-> IF w = 3 \/ p % 2 = 0 THEN 0 ELSE 40,
      challenge_categories |-> [k \in {} |-> 0],
      idol_find_prob |-> 60,
      is_winner |-> FALSE,
      wins |-> IF p = 4 THEN 1 ELSE 0,
      threat_level |-> 10 * p ]

Worlds == {1, 2, 3}

\* season50_compatibility.json: symmetric, 100 on the diagonal.
Compatibility == [i \in Cast |-> [j \in Cast |->
                    IF i = j THEN 100 ELSE 20 + ((i * j * 7 + (i + j) * 3) % 70)]]

(* -------------------------------- state ------------------------------- *)

VARIABLES
  world,                 \* the input world the data files hold
  config_in,             \* the configuration the caller passes
  rng,                   \* the state of the global random generator
  pc,                    \* "new", "init", "loop", "ftc", "done", "raised",
                         \* batches: "ran", "saved", "crashed", "aborted"
  config,                \* self.config
  player_profiles,       \* self.player_profiles
  compatibility_matrix,  \* self.compatibility_matrix
  players,               \* self.players: the Player objects, in list order
  tribes,                \* self.tribes
  alliances,             \* self.alliances: the member lists, in dict order
  available_idols,       \* self.available_idols
  episodes,              \* self.episodes
  current_day,           \* self.current_day
  merged,                \* self.merged
  num_tribe_swaps,       \* self.num_tribe_swaps
  swaps_completed,       \* self.swaps_completed
  swap_timings,          \* self.swap_timings
  council,               \* the locals of the last simulate_tribal_council call
  result,                \* what simulate_full_season returned
  num_simulations,       \* MonteCarloSimulator.num_simulations
  run_index,             \* i of run_simulations' loop
  results,               \* MonteCarloSimulator.results
  seed,                  \* the seed the simulation was constructed with
  sweep,                 \* the configurations a process runs batches for
  sweep_index,           \* the position in sweep of the current batch
  history,               \* every season completed in the process: config, seed, result
  aggregated,            \* what aggregate_results returned
  config_file            \* the JSON object save_config wrote, <<>> before

simVars == << config, player_profiles, compatibility_matrix, players, tribes,
              alliances, available_idols, episodes, current_day, merged,
              num_tribe_swaps, swaps_completed, swap_timings >>

batchVars == << num_simulations, run_index, results, aggregated, sweep, sweep_index,
                history, config_file >>

vars == << world, config_in, rng, pc, seed, simVars, council, result, batchVars >>

(* ------------------------- simulation_config.py ----------------------- *)

\* validate without its last test, the range of total_idols.
validate_without_idol_range(c) ==
  LET dist_sum == SumSeq([i \in 1..Len(c.challenge_distribution) |->
                            c.challenge_distribution[i].w])
  IN  /\ 99 <= dist_sum /\ dist_sum <= 101
      /\ 0 <= c.chaos_factor /\ c.chaos_factor <= 100
      /\ ~(c.challenge_threat_weight < 0 \/ c.strategic_threat_weight < 0
             \/ c.social_threat_weight < 0)

\* SimulationConfig.validate: TRUE when it returns, FALSE when it raises.
validate(c) ==
  LET dist_sum == SumSeq([i \in 1..Len(c.challenge_distribution) |->
                            c.challenge_distribution[i].w])
  IN  /\ 99 <= dist_sum /\ dist_sum <= 101
      /\ 0 <= c.chaos_factor /\ c.chaos_factor <= 100
      /\ ~(c.challenge_threat_weight < 0 \/ c.strategic_threat_weight < 0
             \/ c.social_threat_weight < 0)
      /\ 0 <= c.total_idols /\ c.total_idols <= 30

(* --------------------------- Player helpers --------------------------- *)

Names(ps) == Bind(ps, LAMBDA q : Tuple([i \in 1..Len(q) |-> q[i].name]))

IsAlive(p) == p.alive

\* [p for p in self.players if p.alive]
AlivePlayers(ps) == SelectSeq(ps, IsAlive)

\* next(p for p in self.players if p.name == name)
PlayerNamed(ps, name) == Bind(ps, LAMBDA q : q[IndexOf(Names(q), name)])

AliveNames(ps) == Range(Names(AlivePlayers(ps)))

ImmuneNames(ps) ==
  Bind(ps, LAMBDA q : {q[i].name : i \in {k \in 1..Len(q) : q[k].alive /\ q[k].immune}})

(* ------------------- VotingMechanics.form_alliances ------------------- *)

RECURSIVE FormFrom(_, _, _, _, _, _, _)
FormFrom(ps, i, acc, assigned, compat, r, site) ==
  IF i > Len(ps) THEN acc
  ELSE
    LET p1 == ps[i] IN
    IF p1.name \in assigned \/ ~p1.alive
    THEN FormFrom(ps, i + 1, acc, assigned, compat, r, site)
    ELSE
      LET partners == SelectSeq(ps, LAMBDA p2 :
                         p2.name # p1.name /\ p2.name \notin assigned /\ p2.alive)
          alliance_size == RandInt(Rand(r, site + Len(acc)), 2, 5)
      IN  Bind(SortDesc(Names(partners), compat[p1.name]), LAMBDA sorted :
          Bind(<<p1.name>> \o Prefix(sorted, alliance_size), LAMBDA alliance :
          Bind(Append(acc, alliance), LAMBDA acc_next :
          Bind(assigned \cup Range(alliance), LAMBDA assigned_next :
            FormFrom(ps, i + 1, acc_next, assigned_next, compat, r, site)))))

\* A faulty form_alliances, which returns after its first alliance: with it
\* C28 fails.
form_alliances_first_only(ps, compat, r, site) ==
  Bind(FormFrom(ps, 1, <<>>, {}, compat, r, site), LAMBDA acc :
    IF acc = <<>> THEN acc ELSE <<acc[1]>>)

\* form_alliances(players, compatibility_matrix, player_names): the alliances'
\* member lists in the order they are created.  (num_alliances is not read.)
form_alliances(ps, compat, r, site) ==
  Bind(ps, LAMBDA q : FormFrom(q, 1, <<>>, {}, compat, r, site))

(* -------------------------- SurvivorSimulation ------------------------ *)

RECURSIVE TribeAlliancesFrom(_, _, _, _, _)
TribeAlliancesFrom(ps, t, compat, r, site) ==
  IF t > Len(tribe_names) THEN <<>>
  ELSE LET tribe_players == SelectSeq(ps, LAMBDA p : p.tribe = tribe_names[t] /\ p.alive)
       IN  form_alliances(tribe_players, compat, r, site + 10 * t)
             \o TribeAlliancesFrom(ps, t + 1, compat, r, site)

\* _form_tribe_alliances: the alliances of each tribe, tribe after tribe.
form_tribe_alliances(ps, compat, r, site) ==
  Bind(ps, LAMBDA q : TribeAlliancesFrom(q, 1, compat, r, site))

\* _merge_alliances
merge_alliances(ps, compat, r, site) ==
  form_alliances(AlivePlayers(ps), compat, r, site)

\* The tribes dict: tribe name -> the names of its members, in list order.
TribesOf(ps, tnames) ==
  Bind(ps, LAMBDA q : [t \in Range(tnames) |-> Names(SelectSeq(q, LAMBDA p : p.tribe = t))])

\* The swap roll of __init__ (simulator.py:94-100).
SwapCount(d) == IF Pct(d) < 35 THEN 0 ELSE IF Pct(d) < 85 THEN 1 ELSE 2

\* Faulty timings, the second threshold never stored: with them C20 fails.
SwapTimingsFirstOnly(n) == IF n >= 1 THEN <<swap_timing_1>> ELSE <<>>

\* simulator.py:103-109
SwapTimings(n) ==
  (IF n >= 1 THEN <<swap_timing_1>> ELSE <<>>) \o (IF n >= 2 THEN <<swap_timing_2>> ELSE <<>>)

\* No tribal council has been held yet.
NoCouncil == [ is_premerge |-> FALSE, top_target |-> 0, immune |-> {}, merged |-> FALSE ]

\* SurvivorSimulation.__init__ with generator state r (after any seeding).
\* validate() raises before anything else is done.
Construct(cfg, r) ==
  IF ~validate(cfg)
  THEN /\ pc' = "raised"
       /\ config' = cfg
       /\ UNCHANGED << player_profiles, compatibility_matrix, players, tribes,
                       alliances, available_idols, episodes, current_day, merged,
                       num_tribe_swaps, swaps_completed, swap_timings, council, result >>
  ELSE /\ pc' = "init"
       /\ council' = NoCouncil
       /\ result' = <<>>
       /\ config' = cfg
       /\ player_profiles' = [p \in Cast |-> Profile(world, p)]
       /\ compatibility_matrix' = Compatibility
       /\ players' = <<>>
       /\ tribes' = <<>>
       /\ alliances' = <<>>
       /\ available_idols' = cfg.total_idols
       /\ episodes' = <<>>
       /\ current_day' = 1
       /\ merged' = FALSE
       /\ num_tribe_swaps' = SwapCount(Rand(r, 1))
       /\ swaps_completed' = 0
       /\ swap_timings' = SwapTimings(SwapCount(Rand(r, 1)))

\* initialize_game
InitializeGame(r) ==
  \E shuffled_names \in {Shuffle(player_names, r, 100)} :
  \E ps \in { Tuple([i \in 1..Len(shuffled_names) |->
                 [ name |-> shuffled_names[i],
                   tribe |-> tribe_names[((i - 1) % 3) + 1],
                   alive |-> TRUE,
                   immune |-> FALSE,
                   advantages |-> <<>> ]]) } :
      /\ pc = "init"
      /\ pc' = "loop"
      /\ players' = ps
      /\ tribes' = TribesOf(ps, tribe_names)
      /\ alliances' = form_tribe_alliances(ps, compatibility_matrix, r, 200)
      /\ UNCHANGED << config, player_profiles, compatibility_matrix, available_idols,
                      episodes, current_day, merged, num_tribe_swaps, swaps_completed,
                      swap_timings, council, result >>

(* ------------------------- ChallengeMechanics ------------------------- *)

\* select_challenge_category: the category drawn, "raise" when
\* random.choices raises.
select_challenge_category(distribution, d) ==
  LET k == Choices(d, [i \in 1..Len(distribution) |-> distribution[i].w])
  IN  IF k = 0 THEN "raise" ELSE distribution[k].cat

\* get_player_category_score
get_player_category_score(profile, category) ==
  LET challenge_cats == profile.challenge_categories
      has_key == category \in DOMAIN category_map
  IN  IF has_key /\ category_map[category] \in DOMAIN challenge_cats
      THEN challenge_cats[category_map[category]]
      ELSE profile.challenge_win_prob

\* simulate_individual_immunity(players, randomness): the winner's name;
\* Raises when a random.choices call raises.  Draws: the category at site,
\* then two per player.
simulate_individual_immunity(players_in, profiles, randomness, distribution, r, site) ==
  Bind(players_in, LAMBDA ps :
  Bind(select_challenge_category(distribution, Rand(r, site)), LAMBDA category :
  Bind(Tuple([i \in 1..Len(ps) |->
                Scale( get_player_category_score(profiles[ps[i].name], category)
                       * Uniform(Rand(r, site + 2 * i), 100 - randomness, 100 + randomness)
                       * Uniform(Rand(r, site + 2 * i + 1), 80, 120) )]), LAMBDA probs :
    IF category = "raise" THEN Raises
    ELSE IF SumSeq(probs) = 0 THEN Choice(Rand(r, site + 1), ps).name
    ELSE Bind(Choices(Rand(r, site + 1), Normalized(probs)), LAMBDA k :
           IF k = 0 THEN Raises ELSE ps[k].name))))

\* np.mean of a non-empty list of percents.
Mean(s) == Bind(Tuple(s), LAMBDA t : SumSeq(t) \div Len(t))

\* simulate_tribal_immunity(tribe_members, other_tribes, randomness): the
\* winning tribe's name; "raise" when a random.choices call raises.
\* all_tribes is the list of the tribes' member lists.
simulate_tribal_immunity(tribes_in, profiles, randomness, distribution, r, site) ==
  Bind(tribes_in, LAMBDA all_tribes :
  Bind(select_challenge_category(distribution, Rand(r, site)), LAMBDA category :
  Bind(Tuple([t \in 1..Len(all_tribes) |->
         Bind(SelectSeq(all_tribes[t], IsAlive), LAMBDA members :
         Bind(Mean(Tuple([i \in 1..Len(members) |->
                get_player_category_score(profiles[members[i].name], category)])),
              LAMBDA avg_strength :
           Scale( avg_strength
                  * Uniform(Rand(r, site + 2 * t), 100 - randomness, 100 + randomness)
                  * Uniform(Rand(r, site + 2 * t + 1), 70, 130) )))]),
       LAMBDA tribe_strengths :
    IF category = "raise" THEN "raise"
    ELSE IF SumSeq(tribe_strengths) = 0
    THEN Choice(Rand(r, site + 1), all_tribes)[1].tribe
    ELSE Bind(Choices(Rand(r, site + 1), Normalized(tribe_strengths)), LAMBDA k :
           IF k = 0 THEN "raise" ELSE all_tribes[k][1].tribe))))

(* ------------------------- AdvantageMechanics ------------------------- *)

\* AdvantageType and ADVANTAGE_DIST, in dict order, weights in percent.
ADVANTAGE_DIST ==
  << [type |-> "Hidden Immunity Idol", w |-> 55], [type |-> "Extra Vote", w |-> 25],
     [type |-> "Vote Steal", w |-> 15], [type |-> "Vote Block", w |-> 5] >>

IDOL == "Hidden Immunity Idol"

NoAdvantage == [type |-> "None", owner |-> 0, played |-> FALSE, transferred |-> FALSE]

\* A faulty attempt_idol_search, which does not look at the pool: with it C8 fails.
attempt_idol_search_unguarded(name, profile, available, r, site) ==
  LET base_prob == profile.idol_find_prob
      strategic_bonus == (profile.score_outwit * 4) \div 100
      random_factor == Uniform(Rand(r, site), 70, 130)
      find_prob == ((base_prob + strategic_bonus) * random_factor) \div 100
  IN  IF RandomBelow(Rand(r, site + 1), find_prob)
      THEN [ type |-> ADVANTAGE_DIST[Choices(Rand(r, site + 2),
                         [i \in 1..Len(ADVANTAGE_DIST) |-> ADVANTAGE_DIST[i].w])].type,
             owner |-> name, played |-> FALSE, transferred |-> FALSE ]
      ELSE NoAdvantage

\* attempt_idol_search(player, available_idols) with the default randomness
\* 0.3: the Advantage found, or NoAdvantage for None.
attempt_idol_search(name, profile, available, r, site) ==
  IF available <= 0 THEN NoAdvantage
  ELSE
    LET base_prob == profile.idol_find_prob
        strategic_bonus == (profile.score_outwit * 4) \div 100
        random_factor == Uniform(Rand(r, site), 70, 130)
        find_prob == ((base_prob + strategic_bonus) * random_factor) \div 100
    IN  IF RandomBelow(Rand(r, site + 1), find_prob)
        THEN [ type |-> ADVANTAGE_DIST[Choices(Rand(r, site + 2),
                           [i \in 1..Len(ADVANTAGE_DIST) |-> ADVANTAGE_DIST[i].w])].type,
               owner |-> name, played |-> FALSE, transferred |-> FALSE ]
        ELSE NoAdvantage

\* [a for a in player.advantages if a.type == AdvantageType.IDOL and not a.played]
UnplayedIdols(player) ==
  SelectSeq(player.advantages, LAMBDA a : a.type = IDOL /\ ~a.played)

\* should_play_idol(player, votes_against, total_votes, threat_level,
\* players_remaining); d1 and d2 are its two jitter draws.
should_play_idol(player, profile, votes_against, total_votes, threat_level, players_remaining, d1, d2) ==
  IF UnplayedIdols(player) = <<>> THEN FALSE
  ELSE
    LET danger == IF total_votes > 0 THEN (votes_against * 100) \div total_votes ELSE 0
        threat_factor == threat_level
        read_accuracy == (profile.score_outwit * 30) \div 100 + Uniform(d1, 0, 20) - 10
        phase_threshold == IF players_remaining > 13 THEN 55
                           ELSE IF players_remaining > 7 THEN 40
                           ELSE IF players_remaining > 5 THEN 30
                           ELSE 20
        phase_modifier == IF players_remaining > 13 THEN 0 - 15
                          ELSE IF players_remaining > 7 THEN 0 - 5
                          ELSE IF players_remaining > 5 THEN 5
                          ELSE 15
        perceived_danger == danger + (threat_factor * 20) \div 100 + read_accuracy
                              + phase_modifier
    IN  perceived_danger > phase_threshold + Uniform(d2, 0, 20) - 10

(* ----------------------------- dict helpers --------------------------- *)

\* A Python dict is a sequence of [k, v] entries in insertion order.
Keys(d) == Bind(d, LAMBDA e : Tuple([i \in 1..Len(e) |-> e[i].k]))

Values(d) == Bind(d, LAMBDA e : Tuple([i \in 1..Len(e) |-> e[i].v]))

HasKey(d, key) == Bind(d, LAMBDA e : \E i \in 1..Len(e) : e[i].k = key)

\* d[key]
Get(d, key) == Bind(d, LAMBDA e : e[IndexOf(Keys(e), key)].v)

\* d[key] = val: a new key goes last, an old key keeps its place.
Put(d, key, val) ==
  Bind(d, LAMBDA e :
  Bind([k |-> key, v |-> val], LAMBDA entry :
    IF HasKey(e, entry.k)
    THEN Tuple([i \in 1..Len(e) |-> IF e[i].k = entry.k THEN entry ELSE e[i]])
    ELSE Append(e, entry)))

\* max(d, key=d.get): the first key holding the largest value.
MaxKey(d) == Bind(d, LAMBDA e : e[ArgMaxFirst(Values(e))].k)

(* ------------- simulation_config.py: to_dict, from_dict --------------- *)

\* The field names of the dataclass, in declaration order
\* (simulation_config.py:16-31).
ConfigFields ==
  << "challenge_distribution", "challenge_threat_weight", "strategic_threat_weight",
     "social_threat_weight", "total_idols", "idol_search_probability",
     "chaos_factor", "alliance_loyalty" >>

\* asdict's copy of a value: a dict is rebuilt entry by entry, a number is
\* itself.
AsdictValue(field, val) ==
  IF field = "challenge_distribution"
  THEN Tuple([i \in 1..Len(val) |-> [cat |-> val[i].cat, w |-> val[i].w]])
  ELSE val

\* SimulationConfig.to_dict: asdict(self), the dict of field name -> value in
\* declaration order.
to_dict(c) ==
  Tuple([i \in 1..Len(ConfigFields) |->
           [k |-> ConfigFields[i], v |-> AsdictValue(ConfigFields[i], c[ConfigFields[i]])]])

\* A keyword argument of cls(**data): the value passed, else the default.
Keyword(data, field, default) ==
  IF HasKey(data, field) THEN Get(data, field) ELSE default

\* from_dict that does not pass total_idols on: the field keeps its default.
from_dict_default_idols(data) ==
  [ challenge_distribution |->
      Keyword(data, "challenge_distribution", Dist(25, 20, 15, 25, 5, 10)),
    challenge_threat_weight |-> Keyword(data, "challenge_threat_weight", 16),
    strategic_threat_weight |-> Keyword(data, "strategic_threat_weight", 16),
    social_threat_weight |-> Keyword(data, "social_threat_weight", 12),
    total_idols |-> 8,
    idol_search_probability |-> Keyword(data, "idol_search_probability", 30),
    chaos_factor |-> Keyword(data, "chaos_factor", 50),
    alliance_loyalty |-> Keyword(data, "alliance_loyalty", 35) ]

\* SimulationConfig.from_dict: cls(**data), with the dataclass defaults and
\* __post_init__'s default distribution for what data does not name.
from_dict(data) ==
  [ challenge_distribution |->
      Keyword(data, "challenge_distribution", Dist(25, 20, 15, 25, 5, 10)),
    challenge_threat_weight |-> Keyword(data, "challenge_threat_weight", 16),
    strategic_threat_weight |-> Keyword(data, "strategic_threat_weight", 16),
    social_threat_weight |-> Keyword(data, "social_threat_weight", 12),
    total_idols |-> Keyword(data, "total_idols", 8),
    idol_search_probability |-> Keyword(data, "idol_search_probability", 30),
    chaos_factor |-> Keyword(data, "chaos_factor", 50),
    alliance_loyalty |-> Keyword(data, "alliance_loyalty", 35) ]

(* --------------------------- VotingMechanics -------------------------- *)

\* A faulty score, the challenge term added in both phases: with it C25 fails.
target_score_always_adds(profile, in_alliance, tribe_compat, is_premerge, cfg, d_loyalty, d_noise, d_wild, d_swing) ==
  LET composite_threat == 25 * profile.challenge_win_prob + 30 * profile.score_outwit
                            + 25 * profile.score_jury + 20 * profile.score_inf
      composite_term == IF is_premerge THEN 0
                        ELSE IF composite_threat > 6500
                             THEN ((composite_threat - 6500) * 8) \div 100
                        ELSE IF composite_threat < 3500
                             THEN 0 - (((3500 - composite_threat) * 4) \div 100)
                        ELSE 0
      winner_penalty == IF profile.is_winner \/ profile.wins > 0 THEN 2500 ELSE 0
      alliance_penalty == IF in_alliance
                          THEN cfg.alliance_loyalty * Uniform(d_loyalty, 70, 130)
                                 + profile.voting_accuracy * 15
                          ELSE 0
      challenge_term == IF is_premerge
                        THEN profile.challenge_win_prob * cfg.challenge_threat_weight
                        ELSE profile.challenge_win_prob * cfg.challenge_threat_weight
      strategic_term == profile.score_outwit * cfg.strategic_threat_weight
      social_threat == 10 * profile.score_jury + 30 * profile.score_vote
                         + 40 * profile.score_inf + 20 * tribe_compat
      social_term == (social_threat * cfg.social_threat_weight) \div 100
      noise == (Uniform(d_noise, 0, 60) - 30) * cfg.chaos_factor
      swing == IF RandomBelow(d_wild, 15) THEN (Uniform(d_swing, 0, 50) - 25) * 100 ELSE 0
  IN  composite_term + winner_penalty - alliance_penalty + challenge_term
        + strategic_term + social_term + noise + swing

\* The score determine_target gives one candidate, in hundredths, before the
\* floor; d_loyalty, d_noise, d_wild and d_swing are its four draws.
target_score(profile, in_alliance, tribe_compat, is_premerge, cfg, d_loyalty, d_noise, d_wild, d_swing) ==
  LET composite_threat == 25 * profile.challenge_win_prob + 30 * profile.score_outwit
                            + 25 * profile.score_jury + 20 * profile.score_inf
      composite_term == IF is_premerge THEN 0
                        ELSE IF composite_threat > 6500
                             THEN ((composite_threat - 6500) * 8) \div 100
                        ELSE IF composite_threat < 3500
                             THEN 0 - (((3500 - composite_threat) * 4) \div 100)
                        ELSE 0
      winner_penalty == IF profile.is_winner \/ profile.wins > 0 THEN 2500 ELSE 0
      alliance_penalty == IF in_alliance
                          THEN cfg.alliance_loyalty * Uniform(d_loyalty, 70, 130)
                                 + profile.voting_accuracy * 15
                          ELSE 0
      challenge_term == IF is_premerge
                        THEN 0 - profile.challenge_win_prob * cfg.challenge_threat_weight
                        ELSE profile.challenge_win_prob * cfg.challenge_threat_weight
      strategic_term == profile.score_outwit * cfg.strategic_threat_weight
      social_threat == 10 * profile.score_jury + 30 * profile.score_vote
                         + 40 * profile.score_inf + 20 * tribe_compat
      social_term == (social_threat * cfg.social_threat_weight) \div 100
      noise == (Uniform(d_noise, 0, 60) - 30) * cfg.chaos_factor
      swing == IF RandomBelow(d_wild, 15) THEN (Uniform(d_swing, 0, 50) - 25) * 100 ELSE 0
  IN  composite_term + winner_penalty - alliance_penalty + challenge_term
        + strategic_term + social_term + noise + swing

\* determine_target(voters, candidates, alliances, ...): the target's name,
\* None (0) without candidates.  Four draws per candidate from site on.
determine_target(voters_in, candidates_in, alls, profiles, compat, is_premerge, cfg, r, site) ==
  Bind(voters_in, LAMBDA voters :
  Bind(candidates_in, LAMBDA candidates :
    IF candidates = <<>> THEN 0
    ELSE
      Bind(SelectSeq(candidates, LAMBDA t : t.alive /\ ~t.immune), LAMBDA scored :
      Bind(Names(SelectSeq(voters, IsAlive)), LAMBDA voter_names :
        LET ScoreOf(t) ==
              LET in_alliance == \E a \in 1..Len(alls) :
                                   /\ t.name \in Range(alls[a])
                                   /\ \E v \in 1..Len(voters) :
                                        voters[v].name \in Range(alls[a])
                  tribe_compat == IF voter_names # <<>>
                                  THEN Mean([i \in 1..Len(voter_names) |->
                                               compat[t.name][voter_names[i]]])
                                  ELSE 50
              IN  Max2(10, target_score(profiles[t.name], in_alliance, tribe_compat,
                             is_premerge, cfg,
                             Rand(r, site + 4 * t.name), Rand(r, site + 4 * t.name + 1),
                             Rand(r, site + 4 * t.name + 2), Rand(r, site + 4 * t.name + 3)))
        IN  IF scored = <<>> THEN Choice(Rand(r, site), candidates).name
            ELSE Bind(Tuple([i \in 1..Len(scored) |-> ScoreOf(scored[i])]), LAMBDA weights :
                   scored[Choices(Rand(r, site), weights)].name)))))

RECURSIVE AllianceVotesFrom(_, _, _, _, _, _, _, _, _, _, _)
\* The loop over alliances.items(): one entry [target, voters] per alliance
\* that has an eligible voter and was given a target.
AllianceVotesFrom(a, alls, eligible_voters, eligible_targets, profiles, compat, is_premerge, cfg, r, site, acc) ==
  IF a > Len(alls) THEN acc
  ELSE
    Bind(SelectSeq(eligible_voters, LAMBDA p : p.name \in Range(alls[a])),
         LAMBDA alliance_voters :
    Bind(IF alliance_voters = <<>> THEN 0
         ELSE determine_target(alliance_voters, eligible_targets, alls, profiles,
                               compat, is_premerge, cfg, r, site + 50 * a),
         LAMBDA target :
    Bind(IF alliance_voters = <<>> \/ target = 0 THEN acc
         ELSE Append(acc, [target |-> target, voters |-> Names(alliance_voters)]),
         LAMBDA next :
      AllianceVotesFrom(a + 1, alls, eligible_voters, eligible_targets, profiles,
                        compat, is_premerge, cfg, r, site, next))))

\* votes[voter_name] = target for every voter of every alliance, in order:
\* a voter of two alliances keeps the first position and the last target.
CastVotes(alliance_votes) ==
  LET ballots == [a \in 1..Len(alliance_votes) |->
                    [i \in 1..Len(alliance_votes[a].voters) |->
                       [k |-> alliance_votes[a].voters[i], v |-> alliance_votes[a].target]]]
      RECURSIVE Flat(_)
      Flat(a) == IF a > Len(alliance_votes) THEN <<>> ELSE ballots[a] \o Flat(a + 1)
  IN  Bind(Flat(1), LAMBDA cast :
        LET first == SelectSeq([i \in 1..Len(cast) |-> i],
                               LAMBDA i : \A j \in 1..(i-1) : cast[j].k # cast[i].k)
            LastOf(key) == CHOOSE i \in 1..Len(cast) :
                             cast[i].k = key /\ \A j \in (i+1)..Len(cast) : cast[j].k # key
        IN  Tuple([n \in 1..Len(first) |-> cast[LastOf(cast[first[n]].k)]]))

\* vote_counts[target] = vote_counts.get(target, 0) + 1 over votes.values():
\* the targets in the order they first appear, each with its number of votes.
CountVotes(votes_in) ==
  Bind(Values(votes_in), LAMBDA targets :
    LET first == SelectSeq([i \in 1..Len(targets) |-> i],
                           LAMBDA i : \A j \in 1..(i-1) : targets[j] # targets[i])
    IN  Tuple([n \in 1..Len(first) |->
                 [ k |-> targets[first[n]],
                   v |-> Cardinality({i \in 1..Len(targets) : targets[i] = targets[first[n]]}) ]]))

\* A faulty idol play, which leaves the idol unplayed: with it C24 fails.
PlayIdolUnflagged(ps, name) == ps

\* idol.played = True on the first unplayed idol of the player named.
PlayIdol(ps, name) ==
  Tuple([i \in 1..Len(ps) |->
     IF ps[i].name # name THEN ps[i]
     ELSE LET advs == ps[i].advantages
              first == CHOOSE k \in 1..Len(advs) :
                         /\ advs[k].type = IDOL /\ ~advs[k].played
                         /\ \A j \in 1..(k-1) : ~(advs[j].type = IDOL /\ ~advs[j].played)
          IN  [ps[i] EXCEPT !.advantages = [advs EXCEPT ![first].played = TRUE]]])

\* The tally after the top target played an idol: vote_counts[top_target] = 0.
NullifyVotes(vote_counts, top_target) == Put(vote_counts, top_target, 0)

\* A faulty last step, which sends the target with the fewest votes home:
\* with it C22 fails.
determine_elimination_fewest(vote_counts, eligible_targets, d) ==
  IF vote_counts # <<>> THEN vote_counts[ArgMinFirst(Values(vote_counts))].k
  ELSE IF eligible_targets = <<>> THEN Raises
  ELSE Choice(d, eligible_targets).name

\* The last step of simulate_tribal_council: who goes, given the final tally.
\* Raises when random.choice is given no eligible target.
determine_elimination(vote_counts, eligible_targets, d) ==
  IF vote_counts # <<>> THEN MaxKey(vote_counts)
  ELSE IF eligible_targets = <<>> THEN Raises
  ELSE Choice(d, eligible_targets).name

\* A faulty phase test, one immune player is enough: with it C27 fails.
council_is_premerge_any_immune(alive_players) ==
  Len(SelectSeq(alive_players, LAMBDA p : p.immune)) > 0

\* is_premerge of simulate_tribal_council (game_mechanics.py:554-555)
council_is_premerge(alive_players) ==
  Len(SelectSeq(alive_players, LAMBDA p : p.immune)) > 1

\* Faulty voters, nobody immune votes in any phase: with it C4 fails.
council_voters_not_immune(alive_players, is_premerge) ==
  SelectSeq(alive_players, LAMBDA p : ~p.immune)

\* The voters of a council (game_mechanics.py:557-562)
council_voters(alive_players, is_premerge) ==
  IF is_premerge THEN SelectSeq(alive_players, LAMBDA p : ~p.immune)
  ELSE alive_players

\* The targets of a council (game_mechanics.py:564)
council_targets(alive_players) == SelectSeq(alive_players, LAMBDA p : ~p.immune)

\* simulate_tribal_council(players, alliances, ...): its result dict, with the
\* players list as the idol play left it.
simulate_tribal_council(players_in, alls, profiles, compat, cfg, r, site) ==
  Bind(players_in, LAMBDA ps :
  Bind(AlivePlayers(ps), LAMBDA alive_players :
  Bind(council_is_premerge(alive_players), LAMBDA is_premerge :
  Bind(council_voters(alive_players, is_premerge), LAMBDA eligible_voters :
  Bind(council_targets(alive_players), LAMBDA eligible_targets :
  Bind(AllianceVotesFrom(1, alls, eligible_voters, eligible_targets,
                         profiles, compat, is_premerge, cfg, r, site, <<>>),
       LAMBDA alliance_votes :
  Bind(CastVotes(alliance_votes), LAMBDA votes :
  Bind(CountVotes(votes), LAMBDA vote_counts :
  Bind(IF vote_counts # <<>> THEN MaxKey(vote_counts) ELSE 0, LAMBDA top_target :
  Bind(/\ vote_counts # <<>>
       /\ should_play_idol(PlayerNamed(ps, top_target), profiles[top_target],
                           Get(vote_counts, top_target), Len(votes),
                           profiles[top_target].threat_level, Len(alive_players),
                           Rand(r, site + 1), Rand(r, site + 2)),
       LAMBDA plays :
  Bind(IF plays THEN NullifyVotes(vote_counts, top_target) ELSE vote_counts,
       LAMBDA final_counts :
      [ votes |-> votes,
        vote_counts |-> final_counts,
        advantages_played |-> IF plays
                              THEN << [player |-> top_target, advantage |-> "Idol",
                                       on |-> top_target] >>
                              ELSE <<>>,
        eliminated |-> determine_elimination(final_counts, eligible_targets, Rand(r, site + 3)),
        players |-> IF plays THEN PlayIdol(ps, top_target) ELSE ps,
        is_premerge |-> is_premerge,
        top_target |-> top_target ])))))))))))

(* ------------------ SurvivorSimulation: one episode ------------------- *)

\* player.X = value for the players a test selects.
SetWhere(ps, Test(_), Update(_)) ==
  Bind(ps, LAMBDA q : Tuple([i \in 1..Len(q) |-> IF Test(q[i]) THEN Update(q[i]) ELSE q[i]]))

\* _tribe_swap: the players, the tribes dict and the alliances it leaves.
tribe_swap(players_in, compat, r, site) ==
  Bind(players_in, LAMBDA ps :
  Bind(Shuffle(Names(AlivePlayers(ps)), r, site), LAMBDA shuffled :
    LET num_alive == Len(shuffled)
        num_tribes == IF num_alive >= three_tribes_min THEN 3 ELSE 2
        active_tribe_names == SubSeq(tribe_names, 1, num_tribes)
        TribeAt(i) == active_tribe_names[((i - 1) % num_tribes) + 1]
    IN  Bind(Tuple([i \in 1..Len(ps) |->
                 IF ps[i].alive
                 THEN [ps[i] EXCEPT !.tribe = TribeAt(IndexOf(shuffled, ps[i].name))]
                 ELSE ps[i]]), LAMBDA new_ps :
          [ players |-> new_ps,
            tribes |-> [t \in Range(active_tribe_names) |->
                          SelectSeq(shuffled, LAMBDA n : TribeAt(IndexOf(shuffled, n)) = t)],
            alliances |-> form_tribe_alliances(new_ps, compat, r, site + 20) ])))

\* The searchers of _idol_search_phase (simulator.py:213-219): `or` draws
\* only for a player that is neither an idol hunter nor strategic.
Searchers(ps, profiles, cfg, r, site) ==
  Names(SelectSeq(ps, LAMBDA p :
    /\ p.alive
    /\ \/ profiles[p.name].idol_hunter
       \/ profiles[p.name].score_outwit > 60
       \/ RandomBelow(Rand(r, site + 4 * p.name + 3), cfg.idol_search_probability)))

\* A faulty search loop without the cap test: with it C21 fails.
RECURSIVE SearchFromUncapped(_, _, _, _, _, _, _, _)
SearchFromUncapped(searchers, i, ps, available, found, profiles, r, site) ==
  IF i > Len(searchers)
  THEN [players |-> ps, available_idols |-> available, found |-> found]
  ELSE
    LET name == searchers[i] IN
    Bind(attempt_idol_search(name, profiles[name], available, r, site + 4 * name),
         LAMBDA advantage :
      IF advantage.type = "None"
      THEN SearchFromUncapped(searchers, i + 1, ps, available, found, profiles, r, site)
      ELSE Bind(SetWhere(ps, LAMBDA p : p.name = name,
                         LAMBDA p : [p EXCEPT !.advantages = Append(@, advantage)]),
                LAMBDA ps_next :
           Bind(Append(found, [player |-> name, advantage |-> advantage.type]),
                LAMBDA found_next :
           Bind(available - 1, LAMBDA available_next :
             SearchFromUncapped(searchers, i + 1, ps_next, available_next, found_next,
                                profiles, r, site)))))

\* The loop of _idol_search_phase over the searchers (simulator.py:223-240).
RECURSIVE SearchFrom(_, _, _, _, _, _, _, _)
SearchFrom(searchers, i, ps, available, found, profiles, r, site) ==
  IF i > Len(searchers) \/ Len(found) >= MAX_PER_EPISODE
  THEN [players |-> ps, available_idols |-> available, found |-> found]
  ELSE
    LET name == searchers[i] IN
    Bind(attempt_idol_search(name, profiles[name], available, r, site + 4 * name),
         LAMBDA advantage :
      IF advantage.type = "None"
      THEN SearchFrom(searchers, i + 1, ps, available, found, profiles, r, site)
      ELSE Bind(SetWhere(ps, LAMBDA p : p.name = name,
                         LAMBDA p : [p EXCEPT !.advantages = Append(@, advantage)]),
                LAMBDA ps_next :
           Bind(Append(found, [player |-> name, advantage |-> advantage.type]),
                LAMBDA found_next :
           Bind(available - 1, LAMBDA available_next :
             SearchFrom(searchers, i + 1, ps_next, available_next, found_next,
                        profiles, r, site)))))

\* _idol_search_phase: the players, the pool counter and found_advantages.
idol_search_phase(players_in, available, profiles, cfg, r, site) ==
  Bind(players_in, LAMBDA ps :
  Bind(Searchers(ps, profiles, cfg, r, site), LAMBDA searchers :
    SearchFrom(searchers, 1, ps, available, <<>>, profiles, r, site)))

\* The tribes with living members, in tribe_names order (simulator.py:294-301).
ActiveTribes(players_in) ==
  Bind(players_in, LAMBDA ps :
    LET MembersOf(t) == SelectSeq(ps, LAMBDA p : p.tribe = t /\ p.alive)
    IN  Bind(SelectSeq(tribe_names, LAMBDA t : MembersOf(t) # <<>>), LAMBDA live :
          Tuple([i \in 1..Len(live) |-> [name |-> live[i], members |-> MembersOf(live[i])]])))

\* A faulty choice of the tribe sent to council, the winner: with it C3 fails.
losing_tribe_is_winner(active, winning_tribe, d) == winning_tribe

\* The tribe sent to tribal council (simulator.py:314-320).
losing_tribe_of(active, winning_tribe, d) ==
  Bind(SelectSeq([i \in 1..Len(active) |-> active[i].name], LAMBDA n : n # winning_tribe),
       LAMBDA losing_tribes :
    IF Len(losing_tribes) > 1 THEN Choice(d, losing_tribes)
    ELSE IF losing_tribes # <<>> THEN losing_tribes[1]
    ELSE "None")

\* A faulty tribal challenge, which sets no immunity flag: with it C2 fails.
tribal_immunity_flags_unset(ps, losing_tribe) == ps

\* The immunity flags after a tribal challenge (simulator.py:323-333).
tribal_immunity_flags(ps, losing_tribe) ==
  SetWhere(ps, LAMBDA p : p.alive /\ p.tribe \in Range(tribe_names),
           LAMBDA p : [p EXCEPT !.immune = (p.tribe # losing_tribe)])

RECURSIVE ImmuneListFrom(_, _, _)
\* immune_players as the loop over active_tribes appends it (simulator.py:323-333).
ImmuneListFrom(active, i, losing_tribe) ==
  IF i > Len(active) THEN <<>>
  ELSE (IF active[i].name = losing_tribe THEN <<>> ELSE Names(active[i].members))
         \o ImmuneListFrom(active, i + 1, losing_tribe)

\* A faulty phase tag, Final only below the threshold: with it C19 fails.
phase_of_below_final(num_alive, is_merged) ==
  IF num_alive < FinalAt THEN "Final" ELSE IF is_merged THEN "Merge" ELSE "Pre-Merge"

\* The phase tag of an episode (simulator.py:372).
phase_of(num_alive, is_merged) ==
  IF num_alive <= FinalAt THEN "Final" ELSE IF is_merged THEN "Merge" ELSE "Pre-Merge"

\* A faulty reset, which restores every flag of a player: with it C18 fails.
reset_immunity_revives(ps) ==
  Bind(ps, LAMBDA q : Tuple([i \in 1..Len(q) |-> [q[i] EXCEPT !.immune = FALSE, !.alive = TRUE]]))

\* for p in self.players: p.immune = False
reset_immunity(ps) ==
  Bind(ps, LAMBDA q : Tuple([i \in 1..Len(q) |-> [q[i] EXCEPT !.immune = FALSE]]))

\* A faulty eliminate, which leaves the player alive: with it C1 fails.
eliminate_nobody(ps, name) == ps

\* eliminated_player.alive = False
eliminate(ps, name) ==
  SetWhere(ps, LAMBDA p : p.name = name, LAMBDA p : [p EXCEPT !.alive = FALSE])

\* simulate_episode(episode_num) run with generator state r.
SimulateEpisode(r) ==
  LET num_alive == Len(AlivePlayers(players))
      do_swap == /\ ~merged
                 /\ swaps_completed < num_tribe_swaps
                 /\ num_alive \in Range(swap_timings)
      do_merge == ~merged /\ num_alive <= merge_at
      is_merged == merged \/ do_merge
  IN
  /\ pc = "loop"
  /\ num_alive > 4
  /\ \E swapped \in { IF do_swap THEN tribe_swap(players, compatibility_matrix, r, 300)
                      ELSE [players |-> players, tribes |-> tribes,
                            alliances |-> alliances] } :
     \E ps_merge \in { IF do_merge
                       THEN SetWhere(swapped.players, IsAlive,
                                     LAMBDA p : [p EXCEPT !.tribe = "Merged"])
                       ELSE swapped.players } :
     \E alls \in { IF do_merge THEN merge_alliances(ps_merge, compatibility_matrix, r, 400)
                   ELSE swapped.alliances } :
     \E search \in { idol_search_phase(ps_merge, available_idols, player_profiles,
                                       config, r, 500) } :
     \E active \in { ActiveTribes(search.players) } :
     \* the immunity challenge: its winner, a player or a tribe
     \E challenge_winner \in {
          IF is_merged
          THEN simulate_individual_immunity(AlivePlayers(search.players),
                  player_profiles, config.chaos_factor,
                  config.challenge_distribution, r, 600)
          ELSE IF Len(active) > 1
          THEN simulate_tribal_immunity([i \in 1..Len(active) |-> active[i].members],
                  player_profiles, (config.chaos_factor * 12) \div 10,
                  config.challenge_distribution, r, 600)
          ELSE "unbound" } :
     \E losing_tribe \in { IF is_merged THEN "None"
                           ELSE losing_tribe_of(active, challenge_winner, Rand(r, 650)) } :
     \E ps_immune \in {
          IF is_merged
          THEN SetWhere(search.players, LAMBDA p : p.name = challenge_winner,
                        LAMBDA p : [p EXCEPT !.immune = TRUE])
          ELSE IF Len(active) > 1
          THEN tribal_immunity_flags(search.players, losing_tribe)
          ELSE search.players } :
     \E immune_players \in {
          IF is_merged THEN <<challenge_winner>>
          ELSE IF Len(active) > 1 THEN ImmuneListFrom(active, 1, losing_tribe)
          ELSE <<>> } :
       /\ swaps_completed' = IF do_swap THEN swaps_completed + 1 ELSE swaps_completed
       /\ tribes' = swapped.tribes
       /\ merged' = is_merged
       /\ alliances' = alls
       /\ available_idols' = search.available_idols
       /\ UNCHANGED << config, player_profiles, compatibility_matrix, num_tribe_swaps,
                       swap_timings, result >>
       /\ IF (IF is_merged THEN challenge_winner = Raises ELSE challenge_winner = "raise")
          THEN /\ pc' = "raised"
               /\ players' = search.players
               /\ UNCHANGED << episodes, current_day, council >>
          ELSE
            \E tc \in { simulate_tribal_council(ps_immune, alls, player_profiles,
                                                compatibility_matrix, config, r, 1000) } :
              /\ council' = [ is_premerge |-> tc.is_premerge,
                              top_target |-> tc.top_target,
                              immune |-> ImmuneNames(ps_immune), merged |-> is_merged ]
              /\ IF tc.eliminated = Raises
                 THEN /\ pc' = "raised"
                      /\ players' = tc.players
                      /\ UNCHANGED << episodes, current_day >>
                 ELSE
                   \E ps_end \in { reset_immunity(eliminate(tc.players, tc.eliminated)) } :
                     /\ players' = ps_end
                     /\ current_day' = current_day + 3
                     \* building the EpisodeResult reads winning_tribe, which is
                     \* unbound when a single tribe is left before the merge
                     /\ IF ~is_merged /\ Len(active) <= 1
                        THEN pc' = "raised" /\ UNCHANGED episodes
                        ELSE /\ pc' = "loop"
                             /\ episodes' = Append(episodes,
                                  [ episode |-> Len(episodes) + 1,
                                    day |-> current_day,
                                    phase |-> phase_of(num_alive, is_merged),
                                    challenge_type |-> IF is_merged THEN "Individual"
                                                       ELSE "Tribal",
                                    challenge_winner |-> challenge_winner,
                                    immune_players |-> immune_players,
                                    tribal_council |-> TRUE,
                                    votes |-> tc.votes,
                                    vote_counts |-> tc.vote_counts,
                                    advantages_found |-> search.found,
                                    advantages_played |-> tc.advantages_played,
                                    eliminated |-> tc.eliminated,
                                    remaining_players |-> Names(AlivePlayers(ps_end)),
                                    fire_making |-> <<>> ])

(* ------------- SurvivorSimulation: the end of the season -------------- *)

\* The player the immunity winner takes to the end: the first of
\* sorted(other_players, key=jury threat + jitter) (simulator.py:456-468).
chosen_for_final(others_in, profiles, r, site) ==
  Bind(others_in, LAMBDA other_players :
    LET sort_keys == [i \in 1..Len(other_players) |->
                        60 * profiles[other_players[i].name].score_jury
                        + 40 * profiles[other_players[i].name].score_outwit
                        + Uniform(Rand(r, site + i), 0, 2000) - 1000]
    IN  other_players[ArgMinFirst(sort_keys)].name)

\* A faulty fire-making challenge, whose loser is the first fire maker
\* whoever won: with it C6 fails.
fire_making_loser_first(makers_in, profiles, r, site) ==
  Bind(makers_in, LAMBDA fire_makers :
  Bind(Tuple([i \in 1..Len(fire_makers) |->
                profiles[fire_makers[i].name].challenge_win_prob
                * Uniform(Rand(r, site + i), 70, 130)]), LAMBDA fire_probs :
    IF SumSeq(fire_probs) = 0 THEN [raised |-> TRUE, winner |-> Raises, loser |-> Raises]
    ELSE Bind(Choices(Rand(r, site), Normalized(fire_probs)), LAMBDA w :
           [ raised |-> FALSE,
             winner |-> fire_makers[w].name,
             loser |-> fire_makers[1].name ])))

\* The fire-making challenge (simulator.py:476-493): winner and loser, or
\* raised when the weights sum to zero (p / total divides by zero).
fire_making_challenge(makers_in, profiles, r, site) ==
  Bind(makers_in, LAMBDA fire_makers :
  Bind(Tuple([i \in 1..Len(fire_makers) |->
                profiles[fire_makers[i].name].challenge_win_prob
                * Uniform(Rand(r, site + i), 70, 130)]), LAMBDA fire_probs :
    IF SumSeq(fire_probs) = 0 THEN [raised |-> TRUE, winner |-> Raises, loser |-> Raises]
    ELSE Bind(Choices(Rand(r, site), Normalized(fire_probs)), LAMBDA w :
           [ raised |-> FALSE,
             winner |-> fire_makers[w].name,
             loser |-> SelectSeq(fire_makers,
                                 LAMBDA p : p.name # fire_makers[w].name)[1].name ])))

\* simulate_final_four(episode_num) with generator state r: whether it
\* raised, the players it leaves and its EpisodeResult.
simulate_final_four(players_in, profiles, cfg, episode_num, day, r) ==
  Bind(players_in, LAMBDA ps :
  Bind(AlivePlayers(ps), LAMBDA alive_players :
  Bind(simulate_individual_immunity(alive_players, profiles, cfg.chaos_factor,
                                    cfg.challenge_distribution, r, 600),
       LAMBDA winner_name :
    IF winner_name = Raises THEN [raised |-> TRUE, players |-> ps, record |-> <<>>]
    ELSE
  Bind(SelectSeq(alive_players, LAMBDA p : p.name # winner_name), LAMBDA other_players :
  Bind(chosen_for_final(other_players, profiles, r, 700), LAMBDA chosen_name :
  Bind(SelectSeq(other_players, LAMBDA p : p.name # chosen_name), LAMBDA fire_makers :
  Bind(fire_making_challenge(fire_makers, profiles, r, 710), LAMBDA fire :
  Bind(SetWhere(ps, LAMBDA p : p.name \in {winner_name, chosen_name},
                LAMBDA p : [p EXCEPT !.immune = TRUE]), LAMBDA ps_immune :
    IF fire.raised THEN [raised |-> TRUE, players |-> ps_immune, record |-> <<>>]
    ELSE
  Bind(reset_immunity(eliminate(ps_immune, fire.loser)), LAMBDA ps_end :
      [ raised |-> FALSE,
        players |-> ps_end,
        record |->
          [ episode |-> episode_num,
            day |-> day,
            phase |-> "Final",
            challenge_type |-> "Individual",
            challenge_winner |-> winner_name,
            immune_players |-> <<winner_name>>,
            tribal_council |-> FALSE,
            votes |-> <<>>,
            vote_counts |-> <<>>,
            advantages_found |-> <<>>,
            advantages_played |-> <<>>,
            eliminated |-> fire.loser,
            remaining_players |-> Names(AlivePlayers(ps_end)),
            fire_making |-> << [winner |-> fire.winner, loser |-> fire.loser,
                                chosen |-> chosen_name] >> ] ])))))))))

\* A faulty final four that writes the scaled fire-making strengths back into
\* the profiles: with it C17 fails.
SimulateFinalFourScalesProfiles(r) ==
  /\ pc = "loop"
  /\ Len(AlivePlayers(players)) = 4
  /\ \E ff \in { simulate_final_four(players, player_profiles, config,
                                      Len(episodes) + 1, current_day, r) } :
     /\ UNCHANGED << config, compatibility_matrix, tribes, alliances,
                     available_idols, merged, num_tribe_swaps, swaps_completed,
                     swap_timings, council, result >>
     /\ players' = ff.players
     /\ player_profiles' = [p \in Cast |->
          [player_profiles[p] EXCEPT !.challenge_win_prob = @ * Uniform(Rand(r, 690 + p), 70, 130)]]
     /\ IF ff.raised
        THEN pc' = "raised" /\ UNCHANGED << episodes, current_day >>
        ELSE /\ pc' = "ftc"
             /\ current_day' = current_day + 3
             /\ episodes' = Append(episodes, ff.record)

\* The final-four branch of simulate_full_season (simulator.py:406-408).
SimulateFinalFour(r) ==
  /\ pc = "loop"
  /\ Len(AlivePlayers(players)) = 4
  /\ \E ff \in { simulate_final_four(players, player_profiles, config,
                                      Len(episodes) + 1, current_day, r) } :
     /\ UNCHANGED << config, player_profiles, compatibility_matrix, tribes, alliances,
                     available_idols, merged, num_tribe_swaps, swaps_completed,
                     swap_timings, council, result >>
     /\ players' = ff.players
     /\ IF ff.raised
        THEN pc' = "raised" /\ UNCHANGED << episodes, current_day >>
        ELSE /\ pc' = "ftc"
             /\ current_day' = current_day + 3
             /\ episodes' = Append(episodes, ff.record)

\* A faulty jury, everybody eliminated in any phase: with it C7 fails.
jury_of_all_eliminated(eps, ps) ==
  Tuple([i \in 1..Len(eps) |-> eps[i].eliminated])

\* The jury of _simulate_jury_vote (simulator.py:536-539), as names.
jury_of(eps, ps) ==
  Bind(SelectSeq(eps, LAMBDA ep : ep.phase \in {"Merge", "Final"}), LAMBDA post :
    Tuple([i \in 1..Len(post) |-> post[i].eliminated]))

\* The finalist a juror votes for (simulator.py:550-567).
juror_vote(juror, finalists, profiles, compat, r, site) ==
  LET keys == [i \in 1..Len(finalists) |->
                 40 * compat[juror][finalists[i]]
                 + 35 * profiles[finalists[i]].score_jury
                 + 25 * profiles[finalists[i]].score_outwit
                 + Uniform(Rand(r, site + i), 0, 1000) - 500]
  IN  finalists[ArgMaxFirst(keys)]

\* _simulate_jury_vote(finalists): the jury, its votes, the tally and the
\* winner's name (Raises when max() is given an empty tally).  A juror listed
\* twice keeps one entry in the votes dict.
simulate_jury_vote(finalists, eps, ps, profiles, compat, r) ==
  Bind(jury_of(eps, ps), LAMBDA jury :
  Bind(CastVotes(Tuple([i \in 1..Len(jury) |->
         [ target |-> juror_vote(jury[i], finalists, profiles, compat, r, 800 + 10 * jury[i]),
           voters |-> <<jury[i]>> ]])), LAMBDA votes :
  Bind(CountVotes(votes), LAMBDA vote_counts :
      [ jury |-> jury, votes |-> votes, vote_counts |-> vote_counts,
        winner |-> IF vote_counts = <<>> THEN Raises ELSE MaxKey(vote_counts) ])))

\* The end of simulate_full_season (simulator.py:410-433): the jury vote and
\* the results dict.
FinalTribalCouncil(r) ==
  /\ pc = "ftc"
  /\ UNCHANGED << simVars >>
  /\ \E finalists \in { Names(AlivePlayers(players)) } :
     \E ftc \in { simulate_jury_vote(finalists, episodes, players, player_profiles,
                                     compatibility_matrix, r) } :
       /\ council' = [ jury |-> ftc.jury, votes |-> ftc.votes,
                       vote_counts |-> ftc.vote_counts ]
       /\ IF ftc.winner = Raises
          THEN pc' = "raised" /\ UNCHANGED result
          ELSE /\ pc' = "done"
               /\ result' = [ winner |-> ftc.winner,
                              finalists |-> finalists,
                              episodes |-> episodes,
                              elimination_order |->
                                Tuple([i \in 1..Len(episodes) |-> episodes[i].eliminated]),
                              initial_tribes |-> tribes,
                              total_days |-> current_day,
                              seed |-> r ]

(* ------------------------- one season: main() ------------------------- *)

\* Nothing is constructed yet.
NoSimulation ==
  /\ pc = "new"
  /\ config = <<>>
  /\ player_profiles = <<>>
  /\ compatibility_matrix = <<>>
  /\ players = <<>>
  /\ tribes = <<>>
  /\ alliances = <<>>
  /\ available_idols = 0
  /\ episodes = <<>>
  /\ current_day = 0
  /\ merged = FALSE
  /\ num_tribe_swaps = 0
  /\ swaps_completed = 0
  /\ swap_timings = <<>>
  /\ council = NoCouncil
  /\ result = <<>>

\* A process about to run one season with the seed and configuration it was given.
Init ==
  /\ world \in Worlds
  /\ config_in \in Range(Configs) \cup Range(InvalidConfigs) \cup Range(OutOfRangeConfigs)
  /\ seed \in (0..MaxSeed) \cup {NoSeed}
  /\ rng \in 0..MaxPrior
  /\ NoSimulation
  /\ num_simulations = 0
  /\ run_index = 0
  /\ results = <<>>
  /\ aggregated = <<>>
  /\ config_file = <<>>
  /\ sweep = <<>>
  /\ sweep_index = 0
  /\ history = <<>>

\* SurvivorSimulation(profiles_path, compatibility_path, seed=s, config=config_in)
NewSimulation(s) ==
  /\ pc = "new"
  /\ Construct(config_in, Seeded(s, rng))
  /\ rng' = IF validate(config_in) THEN NextRng(Seeded(s, rng)) ELSE rng
  /\ UNCHANGED << world, config_in >>

Main ==
  /\ NewSimulation(seed)
  /\ UNCHANGED << seed, batchVars >>

RunInitializeGame ==
  /\ InitializeGame(rng)
  /\ rng' = NextRng(rng)
  /\ UNCHANGED << world, config_in, seed, batchVars >>

RunEpisode ==
  /\ SimulateEpisode(rng)
  /\ rng' = NextRng(rng)
  /\ UNCHANGED << world, config_in, seed, batchVars >>

RunFinalFour ==
  /\ SimulateFinalFour(rng)
  /\ rng' = NextRng(rng)
  /\ UNCHANGED << world, config_in, seed, batchVars >>

RunFinalTribalCouncil ==
  /\ FinalTribalCouncil(rng)
  /\ rng' = NextRng(rng)
  /\ UNCHANGED << world, config_in, seed, batchVars >>

Next ==
  \/ Main
  \/ RunInitializeGame
  \/ RunEpisode
  \/ RunFinalFour
  \/ RunFinalTribalCouncil

Spec == Init /\ [][Next]_vars

(* ------------- a season, save_config, load_config, a season ----------- *)

\* A process that runs a season with a seed and a configuration, saves the
\* configuration, loads it again and runs a second season with the same seed.
InitReload ==
  /\ Init
  /\ seed # NoSeed

\* save_config(config, filepath): json.dump(config.to_dict(), f), after the
\* first season ended or the constructor raised.
SaveConfig ==
  /\ pc \in {"done", "raised"}
  /\ config_file = <<>>
  /\ config_file' = to_dict(config_in)
  /\ history' = Append(history, [config |-> config_in, seed |-> seed, result |-> result])
  /\ pc' = "saved"
  /\ UNCHANGED << world, config_in, rng, seed, simVars, council, result,
                  num_simulations, run_index, results, aggregated, sweep, sweep_index >>

\* config = load_config(filepath): SimulationConfig.from_dict(json.load(f));
\* the next SurvivorSimulation is a new object.
LoadConfig ==
  /\ pc = "saved"
  /\ config_in' = from_dict(config_file)
  /\ pc' = "new"
  /\ config' = <<>> /\ player_profiles' = <<>> /\ compatibility_matrix' = <<>>
  /\ players' = <<>> /\ tribes' = <<>> /\ alliances' = <<>>
  /\ available_idols' = 0 /\ episodes' = <<>> /\ current_day' = 0
  /\ merged' = FALSE /\ num_tribe_swaps' = 0 /\ swaps_completed' = 0
  /\ swap_timings' = <<>> /\ council' = NoCouncil /\ result' = <<>>
  /\ UNCHANGED << world, rng, seed, batchVars >>

NextReload ==
  \/ Main
  \/ RunInitializeGame
  \/ RunEpisode
  \/ RunFinalFour
  \/ RunFinalTribalCouncil
  \/ SaveConfig
  \/ LoadConfig

SpecReload == InitReload /\ [][NextReload]_vars

(* ------------------- MonteCarloSimulator: aggregation ----------------- *)

\* round(n / d, digits) as an integer number of 10^-digits, scale = 10^digits.
Round(n, d, scale) == (2 * n * scale + d) \div (2 * d)

\* A faulty list of placements, which leaves the finalists out: with it C10 fails.
placements_of_eliminated(res) ==
  Bind(res.elimination_order, LAMBDA elimination_order :
    Tuple([i \in 1..Len(elimination_order) |->
             [ player |-> elimination_order[i],
               placement |-> Len(elimination_order) - (i - 1) + 3 ]]))

\* The placements one result adds, in the order they are appended
\* (monte_carlo.py:113-128).
placements_of(res) ==
  Bind(res.elimination_order, LAMBDA elimination_order :
  Bind(SelectSeq(res.finalists, LAMBDA f : f # res.winner), LAMBDA non_winners :
    Tuple([i \in 1..Len(elimination_order) |->
             [ player |-> elimination_order[i],
               placement |-> Len(elimination_order) - (i - 1) + 3 ]])
    \o << [player |-> res.winner, placement |-> 1] >>
    \o Tuple([i \in 1..Len(non_winners) |->
                [player |-> non_winners[i], placement |-> (i - 1) + 2]])))

\* The players one result adds to merge_counts (monte_carlo.py:130-136): for
\* each post-merge episode the loop over remaining_players stops at the first
\* player it counts.
merge_counted(res) ==
  Bind(res.episodes, LAMBDA eps :
    LET pre == {eps[i].eliminated : i \in {k \in 1..Len(eps) : eps[k].phase = "Pre-Merge"}}
        Counted(ep) == SelectSeq(ep.remaining_players, LAMBDA n : n \notin pre)
    IN  Bind(SelectSeq(eps, LAMBDA ep : ep.phase \in {"Merge", "Final"}
                                         /\ Counted(ep) # <<>>), LAMBDA post :
          Tuple([i \in 1..Len(post) |-> Counted(post[i])[1]])))

\* The individual challenge winners of one result (monte_carlo.py:138-142).
challenge_winners(res) ==
  Bind(SelectSeq(res.episodes, LAMBDA ep : ep.challenge_type = "Individual"), LAMBDA ind :
    Tuple([i \in 1..Len(ind) |-> ind[i].challenge_winner]))

RECURSIVE AllPlacements(_, _)
AllPlacements(rs, i) ==
  IF i > Len(rs) THEN <<>> ELSE placements_of(rs[i]) \o AllPlacements(rs, i + 1)

RECURSIVE AllMergeCounted(_, _)
AllMergeCounted(rs, i) ==
  IF i > Len(rs) THEN <<>> ELSE merge_counted(rs[i]) \o AllMergeCounted(rs, i + 1)

RECURSIVE AllChallengeWinners(_, _)
AllChallengeWinners(rs, i) ==
  IF i > Len(rs) THEN <<>> ELSE challenge_winners(rs[i]) \o AllChallengeWinners(rs, i + 1)

\* The number of positions of s holding x.
Count(s, x) == Cardinality({i \in 1..Len(s) : s[i] = x})

\* aggregate_results over a non-empty results list.  Probabilities are in
\* ten-thousandths, averages in hundredths.
aggregate_results(results_in) ==
  Bind(results_in, LAMBDA rs :
  Bind(AllPlacements(rs, 1), LAMBDA placed :
  Bind(AllMergeCounted(rs, 1), LAMBDA merge_list :
  Bind(AllChallengeWinners(rs, 1), LAMBDA challenge_list :
    LET num_sims == Len(rs) IN
    [ simulations_run |-> num_sims,
      player_stats |-> [player \in Cast |->
        LET wins == Cardinality({i \in 1..Len(rs) : rs[i].winner = player})
            finals == SumSeq([i \in 1..Len(rs) |-> Count(rs[i].finalists, player)])
            first_boots == Cardinality({i \in 1..Len(rs) :
                              /\ rs[i].elimination_order # <<>>
                              /\ rs[i].elimination_order[1] = player})
            merges == Count(merge_list, player)
            challenge_wins == Count(challenge_list, player)
        IN  Bind(SelectSeq(placed, LAMBDA e : e.player = player), LAMBDA mine :
            [ win_probability |-> Round(wins, num_sims, 10000),
              win_count |-> wins,
              finalist_probability |-> Round(finals, num_sims, 10000),
              finalist_count |-> finals,
              merge_probability |-> Round(merges, num_sims, 10000),
              merge_count |-> merges,
              first_boot_probability |-> Round(first_boots, num_sims, 10000),
              first_boot_count |-> first_boots,
              average_placement |->
                IF mine # <<>>
                THEN Round(SumSeq([i \in 1..Len(mine) |-> mine[i].placement]), Len(mine), 100)
                ELSE 24 * 100,
              challenge_wins_total |-> challenge_wins,
              challenge_wins_per_sim |-> Round(challenge_wins, num_sims, 100),
              placement_distribution |->
                [place \in 1..LastPlacementSlot |->
                   Cardinality({i \in 1..Len(mine) : mine[i].placement = place})] ])] ]))))

(* ------------- batches of seasons: run_simulations, sweeps ------------ *)

\* A process about to run a batch of num_simulations seasons for each
\* configuration of a sweep (parameter_sweep.py run_all_presets; monte_carlo.py
\* main() is a sweep of one configuration).
InitBatch ==
  /\ world \in Worlds
  /\ sweep \in {<<a, b>> : a \in Range(Configs) \cup {InvalidConfigs[1]},
                             b \in Range(Configs) \cup {InvalidConfigs[1]}}
  /\ sweep_index = 1
  /\ config_in = sweep[1]
  /\ num_simulations \in 1..MaxSims
  /\ run_index = 0
  /\ results = <<>>
  /\ aggregated = <<>>
  /\ config_file = <<>>
  /\ history = <<>>
  /\ seed = NoSeed
  /\ rng \in 0..MaxPrior
  /\ NoSimulation

\* sim = SurvivorSimulation(..., seed=i, config=self.config) (monte_carlo.py:52-57)
BatchNewSimulation ==
  /\ run_index < num_simulations
  /\ validate(config_in)
  /\ NewSimulation(run_index)
  /\ seed' = run_index
  /\ UNCHANGED batchVars

\* The constructor is called outside the try block (monte_carlo.py:52-57,
\* parameter_sweep.py:64-69): what it raises ends the batch.
BatchConstructorRaises ==
  /\ pc = "new"
  /\ run_index < num_simulations
  /\ ~validate(config_in)
  /\ pc' = "aborted"
  /\ UNCHANGED << world, config_in, rng, seed, simVars, council, result, batchVars >>

\* self.results.append(result) (monte_carlo.py:59-61)
CollectResult ==
  /\ pc = "done"
  /\ pc' = "new"
  /\ results' = Append(results, result)
  /\ history' = Append(history, [config |-> config_in, seed |-> seed, result |-> result])
  /\ run_index' = run_index + 1
  /\ UNCHANGED << world, config_in, rng, seed, simVars, council, result,
                  num_simulations, aggregated, sweep, sweep_index, config_file >>

\* except Exception: continue (monte_carlo.py:62-64)
SkipFailed ==
  /\ pc = "raised"
  /\ pc' = "new"
  /\ run_index' = run_index + 1
  /\ UNCHANGED << world, config_in, rng, seed, simVars, council, result,
                  num_simulations, results, aggregated, sweep, sweep_index, history,
                  config_file >>

\* The end of run_simulations (monte_carlo.py:66-68): the average time per
\* simulation divides by len(self.results).
FinishRun ==
  /\ pc = "new"
  /\ run_index = num_simulations
  /\ pc' = IF results = <<>> THEN "crashed" ELSE "ran"
  /\ UNCHANGED << world, config_in, rng, seed, simVars, council, result, batchVars >>

\* save_results: aggregated = self.aggregate_results()
SaveResults ==
  /\ pc = "ran"
  /\ pc' = "saved"
  /\ aggregated' = aggregate_results(results)
  /\ UNCHANGED << world, config_in, rng, seed, simVars, council, result,
                  num_simulations, run_index, results, sweep, sweep_index, history,
                  config_file >>

\* The next configuration of the sweep gets a new batch of its own.
NextConfig ==
  /\ pc = "saved"
  /\ sweep_index < Len(sweep)
  /\ pc' = "new"
  /\ sweep_index' = sweep_index + 1
  /\ config_in' = sweep[sweep_index + 1]
  /\ run_index' = 0
  /\ results' = <<>>
  /\ UNCHANGED << world, rng, seed, simVars, council, result, num_simulations,
                  aggregated, sweep, history, config_file >>

NextBatch ==
  \/ BatchNewSimulation
  \/ BatchConstructorRaises
  \/ RunInitializeGame
  \/ RunEpisode
  \/ RunFinalFour
  \/ RunFinalTribalCouncil
  \/ CollectResult
  \/ SkipFailed
  \/ FinishRun
  \/ SaveResults
  \/ NextConfig

SpecBatch == InitBatch /\ [][NextBatch]_vars

(* --------------------------- properties ------------------------------- *)

\* The number of players alive.
NumAlive == Cardinality({i \in 1..Len(players) : players[i].alive})

\* The record of the last round played.
LastEpisode == episodes[Len(episodes)]

\* The tribe a player of the current season sits in.
TribeOfName(name) == PlayerNamed(players, name).tribe

C2_ImmuneNeverTargeted ==
  /\ \A i \in 1..Len(episodes) :
       \A n \in Range(episodes[i].immune_players) :
         /\ n \notin Range(Keys(episodes[i].vote_counts))
         /\ n \notin Range(Values(episodes[i].votes))
         /\ n # episodes[i].eliminated
  /\ (pc = "loop" /\ episodes # <<>>)
       => /\ council.immune = Range(LastEpisode.immune_players)
          /\ council.immune \cap Range(Keys(LastEpisode.vote_counts)) = {}
          /\ council.immune \cap Range(Values(LastEpisode.votes)) = {}
          /\ LastEpisode.eliminated \notin council.immune

\* A finished season with a tribal round where several players were immune
\* and an individual round whose tally names more than one target.
C2_Witness ==
  /\ pc = "done"
  /\ \E i \in 1..Len(episodes) :
       /\ episodes[i].challenge_type = "Tribal"
       /\ Len(episodes[i].immune_players) > 3
       /\ Len(episodes[i].vote_counts) > 1
  /\ \E i \in 1..Len(episodes) :
       /\ episodes[i].challenge_type = "Individual"
       /\ episodes[i].tribal_council
       /\ Len(episodes[i].vote_counts) > 1

\* C3: in a pre-merge round exactly one tribe goes to tribal council and it is
\* not the tribe that won the challenge; every alive member of every other
\* tribe is immune and casts no vote; the eliminated agent is of that tribe.
C3_OneTribeAtCouncil ==
  (pc = "loop" /\ episodes # <<>> /\ LastEpisode.challenge_type = "Tribal")
    => LET ep == LastEpisode
           losing == TribeOfName(ep.eliminated)
       IN  /\ losing # ep.challenge_winner
           /\ losing \in Range(tribe_names)
           /\ ep.votes # <<>>
           /\ \A v \in Range(Keys(ep.votes)) : TribeOfName(v) = losing
           /\ \A i \in 1..Len(players) :
                (players[i].alive /\ players[i].tribe # losing)
                  => /\ players[i].name \in council.immune
                     /\ players[i].name \in Range(ep.immune_players)
                     /\ players[i].name \notin Range(Keys(ep.votes))
           /\ \A n \in council.immune : TribeOfName(n) # losing

\* A tribal round played after a tribe swap, with members of the winning
\* tribe and of a third tribe sitting out the council.
C3_Witness ==
  /\ pc = "loop"
  /\ episodes # <<>>
  /\ LastEpisode.challenge_type = "Tribal"
  /\ swaps_completed > 0
  /\ \E n \in council.immune :
       TribeOfName(n) \notin {LastEpisode.challenge_winner, TribeOfName(LastEpisode.eliminated)}

\* C4: at every post-merge council every alive agent casts exactly one vote,
\* the immunity holder included, and the holder is a voter but never a target.
C4_EveryoneVotesAfterMerge ==
  \A i \in 1..Len(episodes) :
    (episodes[i].challenge_type = "Individual" /\ episodes[i].tribal_council)
      => LET ep == episodes[i] IN
         /\ Range(Keys(ep.votes)) = Range(ep.remaining_players) \cup {ep.eliminated}
         /\ Len(ep.votes) = Len(ep.remaining_players) + 1
         /\ ep.challenge_winner \in Range(Keys(ep.votes))
         /\ ep.challenge_winner \notin Range(Values(ep.votes))
         /\ ep.challenge_winner \notin Range(Keys(ep.vote_counts))
         /\ SumSeq(Values(ep.vote_counts))
              + (IF ep.advantages_played = <<>> THEN 0
                 ELSE Cardinality({j \in 1..Len(ep.votes) :
                        ep.votes[j].v = ep.advantages_played[1].player}))
              = Len(ep.votes)

\* The first council after the merge: the holder of the necklace is among
\* the voters and all of the merged tribe voted.
C4_Witness ==
  /\ pc = "loop"
  /\ episodes # <<>>
  /\ LastEpisode.challenge_type = "Individual"
  /\ LastEpisode.phase = "Merge"
  /\ LastEpisode.challenge_winner \in Range(Keys(LastEpisode.votes))
  /\ Len(LastEpisode.votes) = merge_at

\* C5: when the agent with the highest tally plays an idol, the agent
\* eliminated at that council is a different agent.
C5_IdolSavesItsPlayer ==
  \A i \in 1..Len(episodes) :
    episodes[i].advantages_played # <<>>
      => episodes[i].eliminated # episodes[i].advantages_played[1].player

\* The eliminations that do follow the claim: an idol played against a tally
\* with a second target sends that target home.
C5_IdolPlayedWithSecondTarget ==
  \E i \in 1..Len(episodes) :
    /\ episodes[i].advantages_played # <<>>
    /\ Len(episodes[i].vote_counts) > 1
    /\ episodes[i].eliminated # episodes[i].advantages_played[1].player

\* C6: in the final four the immunity winner and the companion they chose
\* stay alive, the eliminated agent is the loser of the duel between the two
\* others, and the record has no votes and no tally.
C6_FinalFour ==
  \A i \in 1..Len(episodes) :
    ~episodes[i].tribal_council
      => LET ep == episodes[i]
             fire == ep.fire_making[1]
             four == Range(episodes[i - 1].remaining_players)
             stays == Range(ep.remaining_players)
         IN  /\ i = Len(episodes) /\ i > 1
             /\ Cardinality(four) = 4
             /\ {ep.challenge_winner, fire.chosen, fire.winner, fire.loser} = four
             /\ ep.challenge_winner # fire.chosen
             /\ stays = four \ {fire.loser}
             /\ ep.eliminated = fire.loser
             /\ fire.loser \notin {ep.challenge_winner, fire.chosen, fire.winner}
             /\ ep.votes = <<>>
             /\ ep.vote_counts = <<>>
             /\ pc \in {"ftc", "done"}
             /\ \A n \in stays : PlayerNamed(players, n).alive
             /\ ~PlayerNamed(players, fire.loser).alive

\* A final four that was played to its end.
C6_Witness ==
  /\ pc = "ftc"
  /\ episodes # <<>>
  /\ ~LastEpisode.tribal_council
  /\ LastEpisode.fire_making[1].loser = LastEpisode.eliminated

\* C7: the jury is exactly the agents eliminated from the merge episode on,
\* the fire-making loser included and nobody eliminated before the merge;
\* every juror casts exactly one vote, for one of the three finalists; the
\* winner is a finalist no other finalist has more jury votes than.
C7_JuryVote ==
  (pc = "done")
    => LET jury == council.jury
           JuryVotesFor(f) == Cardinality({j \in 1..Len(council.votes) :
                                              council.votes[j].v = f})
       IN  /\ Range(jury) = {players[i].name : i \in {k \in 1..Len(players) :
                                ~players[k].alive /\ players[k].tribe = "Merged"}}
           /\ Range(jury) = {episodes[i].eliminated : i \in {k \in 1..Len(episodes) :
                                episodes[k].challenge_type = "Individual"}}
           /\ \A i \in 1..Len(episodes) :
                episodes[i].challenge_type = "Tribal" => episodes[i].eliminated \notin Range(jury)
           /\ LastEpisode.fire_making[1].loser \in Range(jury)
           /\ Cardinality(Range(jury)) = Len(jury)
           /\ Keys(council.votes) = jury
           /\ Cardinality(Range(result.finalists)) = ftc_size
           /\ Range(result.finalists) = AliveNames(players)
           /\ Range(Values(council.votes)) \subseteq Range(result.finalists)
           /\ result.winner \in Range(result.finalists)
           /\ \A f \in Range(result.finalists) : JuryVotesFor(f) <= JuryVotesFor(result.winner)
           /\ \A j \in 1..Len(council.vote_counts) :
                council.vote_counts[j].v = JuryVotesFor(council.vote_counts[j].k)

\* A jury vote that was split between finalists.
C7_Witness ==
  /\ pc = "done"
  /\ Len(council.jury) = merge_at - ftc_size
  /\ Len(council.vote_counts) > 1

\* The advantages the players of the season hold, played or not.
Discovered == SumSeq([i \in 1..Len(players) |-> Len(players[i].advantages)])

\* C8: the advantages discovered so far and the pool counter add up to
\* config.total_idols, the counter is never negative, and a season with
\* total_idols = 0 has no discovery and no advantage played in any record.
C8_IdolPool ==
  (pc \in {"init", "loop", "ftc", "done"} \/ (pc = "raised" /\ players # <<>>))
    => /\ available_idols >= 0
       /\ Discovered + available_idols = config.total_idols
       /\ pc # "raised"
            => Discovered = SumSeq([i \in 1..Len(episodes) |->
                                      Len(episodes[i].advantages_found)])
       /\ config.total_idols = 0
            => \A i \in 1..Len(episodes) :
                 /\ episodes[i].advantages_found = <<>>
                 /\ episodes[i].advantages_played = <<>>

\* A season that ran with a pool of idols and saw the last of them found
\* while players were still searching.
C8_Witness ==
  /\ pc = "loop"
  /\ config.total_idols > 0
  /\ available_idols = 0
  /\ Discovered = config.total_idols
  /\ Len(episodes) < CastSize - FinalAt

\* C9: two seasons run in one process on the same inputs with the same
\* explicit seed and the same configuration, seed 0 included and whatever ran
\* in between, have the same episode records, the same elimination order and
\* the same winner.
C9_SeededRunsRepeat ==
  \A i \in 1..Len(history) : \A j \in 1..Len(history) :
    (history[i].config = history[j].config /\ history[i].seed = history[j].seed)
      => /\ history[i].result.episodes = history[j].result.episodes
         /\ history[i].result.elimination_order = history[j].result.elimination_order
         /\ history[i].result.winner = history[j].result.winner

\* A process that ran the same configuration twice, so that the season of
\* seed 0 and the season of a later seed were both played a second time after
\* other seasons, and in which two seeds gave two different seasons.
C9_Witness ==
  /\ \E i \in 1..Len(history) : \E j \in (i + 2)..Len(history) :
       /\ history[i].config = history[j].config
       /\ history[i].seed = 0
       /\ history[j].seed = 0
  /\ \E i \in 1..Len(history) : \E j \in (i + 2)..Len(history) :
       /\ history[i].config = history[j].config
       /\ history[i].seed > 0
       /\ history[j].seed = history[i].seed
  /\ \E i \in 1..Len(history) : \E j \in 1..Len(history) :
       /\ history[i].config = history[j].config
       /\ history[i].result.elimination_order # history[j].result.elimination_order

C11_MergeCount ==
  (pc = "saved")
    => \A player \in Cast :
         LET stats == aggregated.player_stats[player]
             made_merge == {i \in 1..Len(results) :
                              \A k \in 1..Len(results[i].episodes) :
                                results[i].episodes[k].phase = "Pre-Merge"
                                  => results[i].episodes[k].eliminated # player}
         IN  /\ stats.merge_count = Cardinality(made_merge)
             /\ stats.merge_count <= Len(results)
             /\ stats.merge_probability <= 10000

\* An aggregated batch in which an agent who reached the merge in every run
\* has a merge_count of 0.
C11_MergedButNotCounted ==
  /\ pc = "saved"
  /\ \E player \in Cast :
       /\ aggregated.player_stats[player].merge_count = 0
       /\ \A i \in 1..Len(results) : player \in Range(results[i].finalists)

\* C12: whichever runs of a batch raise inside simulate_full_season,
\* every one of them included, run_simulations completes without raising; the
\* stored results are those of the runs that did not raise, in the order of
\* their run index, and the aggregation divides by their number.
C12_FailedRunsAreSkipped ==
  /\ pc # "crashed"
  /\ Len(results) <= Len(history)
  /\ \A i \in 1..Len(results) :
       /\ history[Len(history) - Len(results) + i].result = results[i]
       /\ history[Len(history) - Len(results) + i].seed < run_index
       /\ i > 1 => history[Len(history) - Len(results) + i - 1].seed
                     < history[Len(history) - Len(results) + i].seed
  /\ pc = "saved" => aggregated.simulations_run = Len(results)

\* A batch of which every run raised in the final four: nothing was stored,
\* and the average time per stored result divides by zero.
C12_EveryRunRaised ==
  /\ pc = "crashed"
  /\ validate(config_in)
  /\ num_simulations > 0
  /\ run_index = num_simulations
  /\ results = <<>>

\* C13: constructing a simulation with a configuration validate() rejects
\* raises before the generator is seeded, before any input is loaded and
\* before any game state exists; no episode is ever simulated.
C13_RejectedConfigRaisesFirst ==
  [][ (pc = "new" /\ config_in \in Range(InvalidConfigs))
        => /\ pc' = "raised"
           /\ rng' = rng
           /\ player_profiles' = <<>> /\ compatibility_matrix' = <<>>
           /\ players' = <<>> /\ tribes' = <<>> /\ alliances' = <<>>
           /\ episodes' = <<>> /\ result' = <<>>
           /\ num_tribe_swaps' = 0 /\ swap_timings' = <<>> ]_vars

\* A constructor call that raised on a rejected configuration, with a seed
\* that would have put the generator in another state.
C13_Witness ==
  /\ pc = "raised"
  /\ config_in \in Range(InvalidConfigs)
  /\ seed # NoSeed
  /\ SeedState(seed) # rng
  /\ players = <<>>

\* C14: a configuration loaded back from what to_dict wrote equals the
\* original field by field, the challenge distribution included, validates
\* exactly when the original validates, and a run with it and the same seed
\* ends as the run with the original did, with the same result.
C14_ConfigRoundTrip ==
  (history # <<>> /\ pc # "saved")
    => /\ \A i \in 1..Len(ConfigFields) :
            config_in[ConfigFields[i]] = history[1].config[ConfigFields[i]]
       /\ validate(config_in) <=> validate(history[1].config)
       /\ pc = "done" => result = history[1].result
       /\ pc = "raised" => history[1].result = <<>>

\* A second season completed with the loaded configuration, after a first
\* one completed with the original.
C14_Witness ==
  /\ history # <<>>
  /\ pc = "done"
  /\ history[1].result # <<>>
  /\ result.winner = history[1].result.winner
  /\ config_file = to_dict(history[1].config)

\* The members initialize_game gave a starting tribe: the players at the
\* positions i, i + 3, ... of self.players, whose order never changes.
StartingMembers(t) ==
  {players[i].name : i \in {j \in 1..Len(players) : tribe_names[((j - 1) % 3) + 1] = t}}

\* C15: the initial_tribes of the result is the partition initialize_game
\* created, every cast member in exactly one of the three starting tribes,
\* also when tribes were swapped later in the season.
C15_InitialTribes ==
  pc = "done"
    => /\ DOMAIN result.initial_tribes = Range(tribe_names)
       /\ \A t \in Range(tribe_names) :
            /\ Range(result.initial_tribes[t]) = StartingMembers(t)
            /\ Len(result.initial_tribes[t]) = Cardinality(StartingMembers(t))
       /\ \A p \in Cast :
            Cardinality({t \in DOMAIN result.initial_tribes :
                           p \in Range(result.initial_tribes[t])}) = 1

\* A completed season with a swap whose initial_tribes leaves out a cast
\* member, eliminated before the swap.
C15_SwappedTribesReported ==
  /\ pc = "done"
  /\ swaps_completed > 0
  /\ \E p \in Cast : \A t \in DOMAIN result.initial_tribes :
       p \notin Range(result.initial_tribes[t])

\* Every alive player has strength zero in every challenge category and in
\* the fire-making.
ZeroStrengths ==
  \A i \in 1..Len(players) :
    players[i].alive
      => /\ player_profiles[players[i].name].challenge_win_prob = 0
         /\ \A k \in DOMAIN player_profiles[players[i].name].challenge_categories :
              player_profiles[players[i].name].challenge_categories[k] = 0

\* C16: when all candidate strengths of a challenge are zero, individual,
\* team or the final-four fire-making, a winner is still chosen, no error is
\* raised and the round removes exactly one agent.
C16_ZeroStrengthsStillResolve ==
  [][ (pc = "loop" /\ ZeroStrengths)
        => (pc' \in {"loop", "ftc"} /\ NumAlive' = NumAlive - 1) ]_vars

\* A season of agents without any challenge strength that played every
\* episode up to the final four and raised there.
C16_FireMakingRaised ==
  /\ pc = "raised"
  /\ ZeroStrengths
  /\ NumAlive = 4
  /\ Len(episodes) = CastSize - 4
  /\ \E i \in 1..Len(episodes) : episodes[i].challenge_type = "Individual"

\* C17: a run never modifies its read-only inputs: the static profiles, the
\* compatibility matrix and the configuration are after the season, and at
\* every step of it, what was loaded and passed at construction.
C17_InputsReadOnly ==
  (pc \in {"init", "loop", "ftc", "done"} \/ (pc = "raised" /\ players # <<>>))
    => /\ config = config_in
       /\ player_profiles = [p \in Cast |-> Profile(world, p)]
       /\ compatibility_matrix = Compatibility

\* A completed season with a swap, a merge and a final four behind it.
C17_Witness ==
  /\ pc = "done"
  /\ swaps_completed > 0
  /\ merged
  /\ Len(episodes) = CastSize - 3
  /\ player_profiles = [p \in Cast |-> Profile(world, p)]

\* The agents eliminated in the episodes before episode i.
EliminatedBefore(i) == {episodes[j].eliminated : j \in 1..(i - 1)}

\* No record of an episode names an agent eliminated earlier as a voter, a
\* target, a challenge winner, an immune player, a finder of an advantage, the
\* eliminated or a remaining player; a dead player holds no immunity; the
\* dead are the eliminated; a result's elimination order has no duplicates,
\* is disjoint from the finalists and covers the cast together with them.
EliminationIsFinal ==
  /\ \A i \in 1..Len(episodes) :
       /\ EliminatedBefore(i) \cap Range(Keys(episodes[i].votes)) = {}
       /\ EliminatedBefore(i) \cap Range(Values(episodes[i].votes)) = {}
       /\ EliminatedBefore(i) \cap Range(Keys(episodes[i].vote_counts)) = {}
       /\ EliminatedBefore(i) \cap Range(episodes[i].immune_players) = {}
       /\ episodes[i].challenge_type = "Individual"
            => episodes[i].challenge_winner \notin EliminatedBefore(i)
       /\ \A k \in 1..Len(episodes[i].advantages_found) :
            episodes[i].advantages_found[k].player \notin EliminatedBefore(i)
       /\ episodes[i].eliminated \notin EliminatedBefore(i)
       /\ EliminatedBefore(i + 1) \cap Range(episodes[i].remaining_players) = {}
  /\ \A i \in 1..Len(players) :
       /\ ~players[i].alive => ~players[i].immune
       /\ ~players[i].alive <=> players[i].name \in EliminatedBefore(Len(episodes) + 1)
  /\ pc = "done"
       => /\ Cardinality(Range(result.elimination_order)) = Len(result.elimination_order)
          /\ Range(result.elimination_order) \cap Range(result.finalists) = {}
          /\ Range(result.elimination_order) \cup Range(result.finalists) = Cast

\* C18: elimination is permanent: a player's alive flag never becomes true
\* again, a dead agent never votes, receives a vote, wins a challenge, holds
\* immunity or discovers an advantage, and the elimination sequence has no
\* duplicates, is disjoint from the finalists and covers the cast with them.
C18_EliminationPermanent ==
  [][ /\ EliminationIsFinal'
      /\ pc \in {"loop", "ftc"}
           => \A i \in 1..Len(players) : ~players[i].alive => ~players'[i].alive ]_vars

\* A completed season: seven agents eliminated one after the other, three
\* finalists, votes cast and advantages found along the way.
C18_Witness ==
  /\ pc = "done"
  /\ Len(result.elimination_order) = CastSize - 3
  /\ \E i \in 1..Len(episodes) : episodes[i].advantages_found # <<>>
  /\ \E i \in 2..Len(episodes) : episodes[i].votes # <<>>

\* The number of players alive when episode i started.
StartCount(i) == Len(episodes[i].remaining_players) + 1

\* The place of a phase tag in the order of a season.
PhaseRank(phase) == IF phase = "Pre-Merge" THEN 1 ELSE IF phase = "Merge" THEN 2 ELSE 3

\* The merge has happened exactly when an episode started with at most
\* merge_at players; from that episode on every challenge is individual and
\* the alive players sit in "Merged"; the phase of an episode follows from its
\* starting count alone and never goes backwards.
MergedSinceThreshold ==
  /\ \A i \in 1..Len(episodes) :
       /\ episodes[i].challenge_type = "Individual" <=> StartCount(i) <= merge_at
       /\ episodes[i].challenge_type = "Tribal" <=> StartCount(i) > merge_at
       /\ episodes[i].phase = (IF StartCount(i) <= FinalAt THEN "Final"
                                ELSE IF StartCount(i) <= merge_at THEN "Merge"
                                ELSE "Pre-Merge")
       /\ \A j \in 1..(i - 1) : PhaseRank(episodes[j].phase) <= PhaseRank(episodes[i].phase)
  /\ merged <=> \E i \in 1..Len(episodes) : StartCount(i) <= merge_at
  /\ merged => \A i \in 1..Len(players) : players[i].alive => players[i].tribe = "Merged"
  /\ ~merged => \A i \in 1..Len(players) : players[i].tribe # "Merged"

\* C19: the merge happens exactly once, in the first episode that starts with
\* at most merge_at players alive; afterwards merged stays true, every alive
\* agent is in "Merged", every challenge is individual, and the phase tags
\* (Pre-Merge, Merge, Final from FinalAt players on) never go backwards.
C19_MergeOnce ==
  [][ /\ MergedSinceThreshold'
      /\ pc \in {"loop", "ftc"}
           => /\ merged => merged'
              /\ (~merged /\ merged') => (NumAlive <= merge_at /\ NumAlive' = NumAlive - 1)
              /\ (~merged /\ NumAlive <= merge_at /\ pc' # "raised") => merged' ]_vars

\* A completed season with tribal rounds before the merge, the merge episode
\* and Final episodes after it.
C19_Witness ==
  /\ pc = "done"
  /\ merged
  /\ \E i \in 1..Len(episodes) :
       /\ episodes[i].phase = "Merge"
       /\ StartCount(i) = merge_at
       /\ episodes[i - 1].phase = "Pre-Merge"
       /\ episodes[i - 1].challenge_type = "Tribal"
       /\ i < Len(episodes)
       /\ LastEpisode.phase = "Final"

\* C20: exactly the number of swaps drawn at construction takes place; each at
\* the start of an episode whose alive count is the next precomputed
\* threshold (swap_timing_1, then swap_timing_2), while the tribes are not
\* merged; no swap takes place in or after the merge episode and the counter
\* never exceeds the number drawn.
C20_SwapsAsDrawn ==
  [][ /\ swaps_completed' \in {swaps_completed, swaps_completed + 1}
      /\ swaps_completed' = swaps_completed + 1
           => /\ pc = "loop"
              /\ ~merged /\ ~merged'
              /\ swaps_completed < num_tribe_swaps
              /\ NumAlive = <<swap_timing_1, swap_timing_2>>[swaps_completed + 1]
              /\ NumAlive > merge_at
      /\ (pc = "loop" /\ swaps_completed < num_tribe_swaps
             /\ NumAlive = <<swap_timing_1, swap_timing_2>>[swaps_completed + 1])
           => swaps_completed' = swaps_completed + 1
      /\ pc \in {"loop", "ftc"} => num_tribe_swaps' = num_tribe_swaps
      /\ num_tribe_swaps' \in 0..2
      /\ swaps_completed' <= num_tribe_swaps'
      /\ merged' => swaps_completed' = num_tribe_swaps'
      /\ pc' = "done" => swaps_completed' = num_tribe_swaps' ]_vars

\* A completed season for which two swaps were drawn and two took place.
C20_Witness ==
  /\ pc = "done"
  /\ num_tribe_swaps = 2
  /\ swaps_completed = 2
  /\ swap_timings = <<swap_timing_1, swap_timing_2>>

\* C21: every episode discovers at most MAX_PER_EPISODE advantages, whatever
\* the number of searchers and the size of the pool, and nobody searches after
\* the second discovery: the pool falls and the held advantages grow by
\* exactly the number of entries of advantages_found.
C21_SearchCap ==
  [][ Len(episodes') = Len(episodes) + 1
        => /\ Len(LastEpisode'.advantages_found) <= MAX_PER_EPISODE
           /\ Discovered' - Discovered = Len(LastEpisode'.advantages_found)
           /\ available_idols - available_idols' = Len(LastEpisode'.advantages_found)
           /\ \A k \in 1..Len(LastEpisode'.advantages_found) :
                LastEpisode'.advantages_found[k].player \in AliveNames(players) ]_vars

\* A first episode with two discoveries, idols left in the pool, and a
\* strategic player later in the list than the second finder, who would have
\* searched next.
C21_Witness ==
  /\ pc = "loop"
  /\ Len(episodes) = 1
  /\ Len(episodes[1].advantages_found) = MAX_PER_EPISODE
  /\ available_idols > 0
  /\ \E i \in 1..Len(players) :
       /\ player_profiles[players[i].name].score_outwit > 60
       /\ i > IndexOf(Names(players), episodes[1].advantages_found[2].player)

\* C22: at every tribal council where no advantage is played the eliminated
\* agent was alive and not immune, its tally is the largest of the council,
\* and the tallies add up to the number of votes cast.
C22_TopTallyGoes ==
  \A i \in 1..Len(episodes) :
    (episodes[i].tribal_council /\ episodes[i].advantages_played = <<>>)
      => /\ episodes[i].eliminated \notin EliminatedBefore(i)
         /\ episodes[i].eliminated \notin Range(episodes[i].immune_players)
         /\ HasKey(episodes[i].vote_counts, episodes[i].eliminated)
         /\ \A k \in 1..Len(episodes[i].vote_counts) :
              episodes[i].vote_counts[k].v
                <= Get(episodes[i].vote_counts, episodes[i].eliminated)
         /\ SumSeq(Values(episodes[i].vote_counts)) = Len(episodes[i].votes)
         /\ \A k \in 1..Len(episodes[i].vote_counts) :
              episodes[i].vote_counts[k].v
                = Cardinality({n \in 1..Len(episodes[i].votes) :
                                 episodes[i].votes[n].v = episodes[i].vote_counts[k].k})

\* A council without an advantage played whose tally names three targets,
\* the eliminated one ahead of another.
C22_Witness ==
  \E i \in 1..Len(episodes) :
    /\ episodes[i].tribal_council
    /\ episodes[i].advantages_played = <<>>
    /\ Len(episodes[i].vote_counts) >= 3
    /\ \E k \in 1..Len(episodes[i].vote_counts) :
         episodes[i].vote_counts[k].v < Get(episodes[i].vote_counts, episodes[i].eliminated)

\* The members of the blocs the last council voted with: self.alliances is
\* written only before the council of an episode, by a swap or the merge.
BlocMembers == UNION {Range(alliances[a]) : a \in 1..Len(alliances)}

\* C23: at every tribal council every bloc consists of currently alive agents
\* only: nobody eliminated before the council is a member of a bloc it votes
\* with.
C23_BlocsOfTheLiving ==
  (pc \in {"loop", "ftc", "done"} /\ episodes # <<>> /\ LastEpisode.tribal_council)
    => BlocMembers \cap EliminatedBefore(Len(episodes)) = {}

\* A second council held without a swap or a merge before it: the agent
\* voted out at the first council is still a member of a bloc.
C23_DeadBlocMember ==
  /\ pc = "loop"
  /\ Len(episodes) = 2
  /\ swaps_completed = 0
  /\ ~merged
  /\ episodes[1].eliminated \in BlocMembers
  /\ ~PlayerNamed(players, episodes[1].eliminated).alive

\* The number of advantages whose played flag is set.
PlayedCount ==
  SumSeq([i \in 1..Len(players) |->
            Len(SelectSeq(players[i].advantages, LAMBDA a : a.played))])

\* The number of idols of a player whose played flag is set.
PlayedIdols(player) ==
  Len(SelectSeq(player.advantages, LAMBDA a : a.type = IDOL /\ a.played))

\* The votes an episode's ballots give a name.
VotesFor(ep, name) == Cardinality({n \in 1..Len(ep.votes) : ep.votes[n].v = name})

\* C24: an advantage is consumed at most once: a council records a play only
\* for its top-tallied agent and only when that agent held an unplayed idol,
\* at most one per council; a played flag never returns to unplayed and no
\* advantage changes owner.
C24_AdvantagePlayedOnce ==
  [][ /\ Len(players') = Len(players)
           => \A i \in 1..Len(players) :
                /\ Len(players'[i].advantages) >= Len(players[i].advantages)
                /\ \A k \in 1..Len(players[i].advantages) :
                     /\ players'[i].advantages[k].owner = players[i].advantages[k].owner
                     /\ players'[i].advantages[k].type = players[i].advantages[k].type
                     /\ players[i].advantages[k].played => players'[i].advantages[k].played
                /\ \A k \in 1..Len(players'[i].advantages) :
                     /\ players'[i].advantages[k].owner = players'[i].name
                     /\ ~players'[i].advantages[k].transferred
                     /\ players'[i].advantages[k].played
                          => players'[i].advantages[k].type = IDOL
      /\ Len(episodes') = Len(episodes) + 1
           => /\ Len(LastEpisode'.advantages_played) <= 1
              /\ PlayedCount' - PlayedCount = Len(LastEpisode'.advantages_played)
              /\ \A k \in 1..Len(LastEpisode'.advantages_played) :
                   LET play == LastEpisode'.advantages_played[k] IN
                   /\ play.advantage = "Idol"
                   /\ play.on = play.player
                   /\ \A n \in 1..Len(LastEpisode'.votes) :
                        VotesFor(LastEpisode', LastEpisode'.votes[n].v)
                          <= VotesFor(LastEpisode', play.player)
                   /\ VotesFor(LastEpisode', play.player) > 0
                   /\ PlayedIdols(PlayerNamed(players', play.player))
                        = PlayedIdols(PlayerNamed(players, play.player)) + 1 ]_vars

\* A season in which an idol was played at a council and its flag is set,
\* while its owner still holds another advantage, unplayed.
C24_Witness ==
  /\ pc \in {"loop", "ftc", "done"}
  /\ \E i \in 1..Len(episodes) :
       /\ episodes[i].advantages_played # <<>>
       /\ \E a \in Range(PlayerNamed(players, episodes[i].advantages_played[1].player).advantages) :
            a.played
  /\ \E i \in 1..Len(players) :
       \E a, b \in Range(players[i].advantages) : a.played /\ ~b.played

\* The challenge abilities a candidate is given, in percent, in rising order.
ChallengeLevels == <<0, 15, 40, 70, 100>>

\* The floored score of the candidate named, were its challenge ability c, at
\* a council of the current state: every other input and the four draws are
\* those of the state.
ScoreWithChallenge(name, c, in_alliance, is_premerge) ==
  Max2(10, target_score([player_profiles[name] EXCEPT !.challenge_win_prob = c],
                        in_alliance, compatibility_matrix[name][players[1].name],
                        is_premerge, config,
                        Rand(rng, 4 * name), Rand(rng, 4 * name + 1),
                        Rand(rng, 4 * name + 2), Rand(rng, 4 * name + 3)))

\* C25: with every draw and every other input fixed and a challenge weight
\* that is not negative, a candidate's score never increases with the
\* candidate's challenge ability at a pre-merge council and never decreases
\* with it at a post-merge council.
C25_ChallengeSignFlips ==
  (pc = "loop" /\ config.challenge_threat_weight >= 0)
    => \A i \in 1..Len(players) : \A in_alliance \in BOOLEAN :
         \A k \in 1..(Len(ChallengeLevels) - 1) :
           players[i].alive
             => /\ ScoreWithChallenge(players[i].name, ChallengeLevels[k + 1], in_alliance, TRUE)
                     <= ScoreWithChallenge(players[i].name, ChallengeLevels[k], in_alliance, TRUE)
                /\ ScoreWithChallenge(players[i].name, ChallengeLevels[k + 1], in_alliance, FALSE)
                     >= ScoreWithChallenge(players[i].name, ChallengeLevels[k], in_alliance, FALSE)

\* A season with councils before and after the merge, and a candidate whose
\* score falls with the ability before the merge and rises with it after.
C25_Witness ==
  /\ pc = "loop"
  /\ merged
  /\ \E i \in 1..Len(players) :
       /\ players[i].alive
       /\ ScoreWithChallenge(players[i].name, 100, FALSE, TRUE)
            < ScoreWithChallenge(players[i].name, 0, FALSE, TRUE)
       /\ ScoreWithChallenge(players[i].name, 100, FALSE, FALSE)
            > ScoreWithChallenge(players[i].name, 0, FALSE, FALSE)

\* A category weight of the configuration passed is negative or above 1.
WeightOutOfRange ==
  \E i \in 1..Len(config_in.challenge_distribution) :
    \/ config_in.challenge_distribution[i].w < 0
    \/ config_in.challenge_distribution[i].w > 100

\* C26: validate() rejects every configuration with a challenge-category
\* weight out of range, also when the weights sum to 1.0: none is accepted
\* and passed on to the sampling of challenge categories.
C26_WeightsInRange ==
  WeightOutOfRange
    => /\ pc \in {"new", "raised"}
       /\ players = <<>>
       /\ episodes = <<>>

\* A season played with a negative category weight: validate() accepted the
\* configuration and categories were drawn from it.
C26_NegativeWeightAccepted ==
  /\ WeightOutOfRange
  /\ validate(config_in)
  /\ config = config_in
  /\ pc = "done"
  /\ \E i \in 1..Len(episodes) : episodes[i].challenge_type = "Individual"

\* C27: at every tribal council simulate_tribal_council takes the round for
\* pre-merge exactly when the simulator has not merged: more than one alive
\* agent is immune in every unmerged episode and at most one in every merged
\* episode.
C27_PhaseTestMatches ==
  /\ (pc \in {"loop", "ftc", "done"} /\ episodes # <<>> /\ LastEpisode.tribal_council)
       => /\ council.is_premerge = ~council.merged
          /\ council.merged = merged
          /\ council.is_premerge <=> Cardinality(council.immune) > 1
  /\ \A i \in 1..Len(episodes) :
       episodes[i].tribal_council
         => /\ StartCount(i) > merge_at <=> Len(episodes[i].immune_players) > 1
            /\ StartCount(i) <= merge_at <=> Len(episodes[i].immune_players) = 1
            /\ StartCount(i) > merge_at
                 => Range(Keys(episodes[i].votes)) \cap Range(episodes[i].immune_players) = {}
            /\ StartCount(i) <= merge_at
                 => Range(episodes[i].immune_players) \subseteq Range(Keys(episodes[i].votes))

\* The council of the merge episode, right after an unmerged council with
\* several immune players: one player immune, the round taken for post-merge.
C27_Witness ==
  /\ pc = "loop"
  /\ merged
  /\ StartCount(Len(episodes)) = merge_at
  /\ ~council.is_premerge
  /\ Cardinality(council.immune) = 1
  /\ Len(episodes[Len(episodes) - 1].immune_players) > 1

\* The players alive when episode i started.
AliveAtStart(i) == Range(episodes[i].remaining_players) \cup {episodes[i].eliminated}

\* C28: at every tribal council the blocs partition the alive agents: every
\* alive agent is a member of exactly one bloc, after a swap, the merge or an
\* elimination too, and every eligible voter casts exactly one vote.
C28_BlocsCoverTheLiving ==
  /\ (pc \in {"loop", "ftc", "done"} \/ (pc = "raised" /\ players # <<>>))
       => \A i \in 1..Len(players) :
            players[i].alive
              => Cardinality({a \in 1..Len(alliances) :
                                players[i].name \in Range(alliances[a])}) = 1
  /\ \A a \in 1..Len(alliances) :
       Cardinality(Range(alliances[a])) = Len(alliances[a])
  /\ \A i \in 1..Len(episodes) :
       episodes[i].tribal_council
         => /\ Cardinality(Range(Keys(episodes[i].votes))) = Len(episodes[i].votes)
            /\ Range(Keys(episodes[i].votes))
                 = IF StartCount(i) > merge_at
                   THEN AliveAtStart(i) \ Range(episodes[i].immune_players)
                   ELSE AliveAtStart(i)

\* A season with a swap and the merge behind it and a council after each, in
\* which some bloc has lost a member.
C28_Witness ==
  /\ pc = "loop"
  /\ swaps_completed > 0
  /\ merged
  /\ Len(episodes) > CastSize - merge_at + 1
  /\ BlocMembers \cap EliminatedBefore(Len(episodes) + 1) # {}

\* C29: no agent ever votes against themselves: in every episode record
\* votes[v] differs from v for every voter v.
C29_NoSelfVote ==
  \A i \in 1..Len(episodes) :
    \A n \in 1..Len(episodes[i].votes) :
      episodes[i].votes[n].k # episodes[i].votes[n].v

\* A council of several voters at which the target of a bloc is one of its
\* own voting members, whose ballot names themselves.
C29_SelfVoteCast ==
  \E i \in 1..Len(episodes) :
    /\ Len(episodes[i].votes) >= 3
    /\ \E n \in 1..Len(episodes[i].votes) :
         /\ episodes[i].votes[n].k = episodes[i].votes[n].v
         /\ \E m \in 1..Len(episodes[i].votes) :
              /\ m # n
              /\ episodes[i].votes[m].v = episodes[i].votes[n].v

\* One season as the process runs it: simulate_full_season is a sequential
\* loop, so a step that can be taken is taken.
SpecSeason == Init /\ [][Next]_vars /\ WF_vars(Next)

\* The season came to its end with one declared winner among three finalists,
\* after CastSize - 4 councils and one fire-making episode.
SeasonDecided ==
  /\ pc = "done"
  /\ Len(episodes) = CastSize - 3
  /\ LastEpisode.fire_making # <<>>
  /\ Len(result.finalists) = ftc_size
  /\ result.winner \in Range(result.finalists)

\* C30: every run of simulate_full_season terminates: every episode lowers
\* the alive count by one, the final four is reached after exactly
\* CastSize - 4 council episodes, one fire-making episode follows and the run
\* ends with one declared winner who is one of the three finalists.
C30_SeasonTerminates ==
  /\ [][ Len(episodes') = Len(episodes) + 1
          => /\ NumAlive' = NumAlive - 1
             /\ (NumAlive = 4) = (Len(episodes) = CastSize - 4) ]_vars
  /\ (pc = "init") ~> SeasonDecided

\* A season of a cast in which some agents have challenge strength, ended by
\* the exception of the fire-making at the final four, without a result.
C30_SeasonWithoutWinner ==
  /\ pc = "raised"
  /\ ~ZeroStrengths
  /\ NumAlive = 4
  /\ Len(episodes) = CastSize - 4
  /\ result = <<>>

====
